---- MODULE Spec2Model ----
(***************************************************************************)
(* Context Cache: the note indexer (indexFiles), the fragmenter            *)
(* (chunkText) and the conversation indexer, modelled statement by         *)
(* statement over an abstract SQLite store.                                *)
(*                                                                         *)
(* Strings are sequences of one-character strings.  Every SQL statement    *)
(* that the code runs outside db.transaction() autocommits, so each one    *)
(* is a step of its own and every state between two steps is a state a     *)
(* second connection can read.                                             *)
(***************************************************************************)
EXTENDS Integers, Sequences, FiniteSets, TLC

(***************************************************************************)
(* Bounds                                                                  *)
(***************************************************************************)
\* number of indexFiles runs explored
MaxRuns == 3
\* number of embedder failures explored over all runs
MaxFailures == 2
\* longest text given to chunkText
MaxTextLen == 5
\* largest chunkSize given to chunkText
MaxChunkSize == 3
\* number of conversation-indexer runs explored
MaxConvRuns == 2
\* number of embedder failures explored over all conversation runs
MaxConvFailures == 1

(***************************************************************************)
(* String primitives of JavaScript used by the code                        *)
(***************************************************************************)
Min(a, b) == IF a < b THEN a ELSE b
Max(a, b) == IF a > b THEN a ELSE b

\* String.prototype.lastIndexOf(ch, fromIndex): zero-based, fromIndex
\* clamped to [0, length], -1 when there is no occurrence at or before it
LastIndexOf(text, ch, fromIndex) ==
  LET from == Max(0, Min(fromIndex, Len(text)))
      hits == {k \in 0..(Len(text) - 1) : k <= from /\ text[k + 1] = ch}
  IN  IF hits = {} THEN -1 ELSE CHOOSE k \in hits : \A j \in hits : j <= k

\* String.prototype.substring(start, end): both clamped to [0, length],
\* swapped when start > end
Substring(text, start, end) ==
  LET s == Max(0, Min(start, Len(text)))
      e == Max(0, Min(end, Len(text)))
  IN  SubSeq(text, Min(s, e) + 1, Max(s, e))

IsSpace(c) == c = " "

RECURSIVE TrimStart(_)
TrimStart(s) ==
  IF s # <<>> /\ IsSpace(Head(s)) THEN TrimStart(Tail(s)) ELSE s

RECURSIVE TrimEnd(_)
TrimEnd(s) ==
  IF s # <<>> /\ IsSpace(s[Len(s)]) THEN TrimEnd(SubSeq(s, 1, Len(s) - 1)) ELSE s

\* String.prototype.trim()
Trim(s) == TrimEnd(TrimStart(s))

(***************************************************************************)
(* chunkText, as a function.  One pass of the while loop is ChunkWindow;   *)
(* a pass that neither reaches the end of the text nor moves start         *)
(* forward repeats for ever (the next pass computes the same window), so   *)
(* the loop then never returns: Hang.                                      *)
(***************************************************************************)
Hang == <<"<hang>">>

\* the end of the window that starts at start
WindowEnd(text, chunkSize, start) ==
  LET end == start + chunkSize
      lastSpace == LastIndexOf(text, " ", end)
  IN  IF end < Len(text) /\ lastSpace > start THEN lastSpace ELSE end

RECURSIVE ChunkLoop(_, _, _, _, _)
ChunkLoop(text, chunkSize, overlap, start, acc) ==
  IF ~(start < Len(text)) THEN acc
  ELSE LET end == WindowEnd(text, chunkSize, start)
           out == Append(acc, Trim(Substring(text, start, end)))
       IN  IF end >= Len(text) THEN out
           ELSE IF end - overlap <= start THEN Hang
           ELSE ChunkLoop(text, chunkSize, overlap, end - overlap, out)

chunkText(text, chunkSize, overlap) ==
  IF Len(text) <= chunkSize THEN <<text>>
  ELSE ChunkLoop(text, chunkSize, overlap, 0, <<>>)

(***************************************************************************)
(* The note tree and the configuration                                     *)
(***************************************************************************)
Absent == <<"<absent>">>

\* relative paths of the Markdown files, in the order findMarkdownFiles
\* lists them
Paths == <<"a.md", "b.md">>
PathSet == {Paths[i] : i \in 1..Len(Paths)}

\* file contents the tree can hold
Contents ==
  { <<"a", "b">>,
    <<"a", "b", "c", " ", "d", "e">> }

\* getConfig('chunkSize'), getConfig('chunkOverlap')
Configs == { [chunkSize |-> 4, chunkOverlap |-> 1] }

computeFileHash(content) == <<"sha256", content>>

VARIABLES
  \* --- note indexer ---
  disk,         \* path -> content, or Absent
  config,       \* the configuration of the process
  files,        \* rows of table files
  chunks,       \* rows of table chunks
  chunks_fts,   \* rows of table chunks_fts
  seqFiles,     \* sqlite_sequence of files (AUTOINCREMENT)
  seqChunks,    \* sqlite_sequence of chunks (AUTOINCREMENT)
  pc,           \* position of indexFiles
  dbFiles,      \* rows still to visit in the deletion loop
  markdownFiles,\* paths still to visit in the file loop
  cur,          \* the file being processed: fileId, its chunks, index i
  stats,        \* IndexStats of the run in progress or just returned
  runs,         \* completed runs
  failures,     \* embedder failures so far
  snap,         \* the store and the tree when the run started
  unchanged,    \* the tree was not touched since the last run returned
  \* --- one call of chunkText ---
  ck_text,      \* argument text
  ck_chunkSize, \* argument chunkSize
  ck_overlap,   \* argument overlap
  ck_start,     \* local start
  ck_end,       \* local end of the last pass
  ck_chunks,    \* local chunks
  ck_pc,        \* "off", "entry", "loop", "returned"
  \* --- conversation indexer ---
  archive,      \* archive path -> content of the event log, or NoArtifact
  opencode,     \* session id -> session of the OpenCode database, or NoArtifact
  conversations,\* rows of table conversations
  exchanges,    \* rows of table exchanges
  uuid,         \* randomUUID() values handed out so far
  cv_pc,        \* position of the batch indexer
  cv_source,    \* 'copilot': indexConversationFiles, 'opencode': indexOpencodeDatabase
  cv_stale,     \* rows still to visit in the delete-detection loop
  cv_items,     \* artifacts still to visit in the indexing loop
  result,       \* IndexResult of the run in progress or just returned
  cv_runs,      \* completed runs
  cv_failures,  \* embedder failures so far
  cv_snap,      \* the store and the artifacts when the run started
  cv_clean,     \* per source: the last run reported no error and the
                \* artifacts were not touched since it returned
  \* --- one call of mergeWithRRF ---
  rrf_lists,    \* argument resultLists: the ranked lists, as lists of ids
  rrf_k,        \* argument k
  rrf_merged,   \* the returned list of {id, score}
  rrf_pc,       \* "off", "call", "returned"
  \* --- one call of hybridSearch ---
  hy_chunks,    \* ids of the chunks in the store (each joined with its file)
  hy_bm25,      \* the lexical ranking of the query over the chunks, best first
  hy_vector,    \* the vector ranking of the query vector over the chunks
  hy_limit,     \* argument limit
  hy_pc,        \* "off", "bm25", "vector", "merge", "hydrate", "returned"
  hy_bm25Results,   \* local bm25Results, as ids
  hy_vectorResults, \* local vectorResults, as ids
  hy_topResults,    \* local topResults: {id, score}
  hy_i,         \* entries of topResults visited by the hydration loop
  hy_results,   \* local results: {chunk_id, score}
  hy_missed,    \* ids of topResults whose hydration query found no row
  hy_deletes,   \* chunks deleted by another process during the call
  hy_rrfK,      \* the rrfK of the configuration the process loaded
  \* ---- search/vector: one call of vectorSearch ----
  vs_rows,      \* the chunks rows in insertion order: id, embedding
  vs_query,     \* queryEmbedding
  vs_limit,     \* limit
  vs_chunks,    \* the rows the statement returned
  vs_results,   \* the array results: mapped, sorted in place, sliced
  vs_pc,        \* "off", "select", "map", "sort", "slice", "returned"
  \* ---- conversations/parsers: the parse and the storing of one log ----
  ps_source,    \* "copilot" or "opencode"
  ps_input,     \* the events of the log, or the messages of the session
  ps_exchanges, \* parsed.exchanges
  ps_rows,      \* the exchanges rows of the Conversation
  ps_runs,      \* ingestions of the Conversation so far
  ps_pc,        \* "off", "parse", "store", "done"
  \* ---- conversations/search: one call of searchConversations ----
  cs_store,     \* conversation id -> [timestamp, exchanges]
  cs_query,     \* query
  cs_limit,     \* options.limit
  cs_after,     \* options.after ('' when not given)
  cs_before,    \* options.before ('' when not given)
  cs_rows,      \* the rows of the statement, then the results
  cs_pc,        \* "off", "select", "map", "returned"
  \* ---- conversations/show: one call of showConversationByPath ----
  sh_events,    \* the parsed lines of the log: type and place in the log
  sh_startLine, \* options.startLine (0 when not given)
  sh_endLine,   \* options.endLine (0 when not given)
  sh_output,    \* the exchanges written: [user, assistant] as places
  sh_pc,        \* "off", "call", "returned"
  \* ---- the store as a whole: resetDatabase and the searches over it ----
  st_pc,        \* "off", "idle", "returned" (a search has returned)
  st_kind,      \* the search that returned: "bm25", "vector", "hybrid"
  st_query,     \* its query
  st_limit,     \* its limit
  st_results,   \* its results
  st_resets     \* calls of resetDatabase so far

notesVars == <<disk, config, files, chunks, chunks_fts, seqFiles, seqChunks,
               pc, dbFiles, markdownFiles, cur, stats, runs, failures, snap,
               unchanged>>

chunkVars == <<ck_text, ck_chunkSize, ck_overlap, ck_start, ck_end, ck_chunks,
               ck_pc>>

convVars == <<archive, opencode, conversations, exchanges, uuid, cv_pc,
              cv_source, cv_stale, cv_items, result, cv_runs, cv_failures,
              cv_snap, cv_clean>>

rrfVars == <<rrf_lists, rrf_k, rrf_merged, rrf_pc>>

hybridVars == <<hy_chunks, hy_bm25, hy_vector, hy_limit, hy_pc, hy_bm25Results,
                hy_vectorResults, hy_topResults, hy_i, hy_results, hy_missed,
                hy_deletes, hy_rrfK>>

vectorVars == <<vs_rows, vs_query, vs_limit, vs_chunks, vs_results, vs_pc>>

parseVars == <<ps_source, ps_input, ps_exchanges, ps_rows, ps_runs, ps_pc>>

convSearchVars == <<cs_store, cs_query, cs_limit, cs_after, cs_before, cs_rows,
                    cs_pc>>

showVars == <<sh_events, sh_startLine, sh_endLine, sh_output, sh_pc>>

\* the operations on one conversation log or on the whole store
storeVars == <<st_pc, st_kind, st_query, st_limit, st_results, st_resets>>

laterVars == <<showVars, storeVars>>

\* vectorSearch, the parsers, searchConversations and the later operations
queryVars == <<vectorVars, parseVars, convSearchVars, laterVars>>

searchVars == <<rrfVars, hybridVars, queryVars>>

vars == <<notesVars, chunkVars, convVars, searchVars>>

NoCur == [fileId |-> 0, path |-> "", chunks |-> <<>>, i |-> 0, old |-> {}]

ZeroStats ==
  [filesProcessed |-> 0, filesAdded |-> 0, filesUpdated |-> 0,
   filesSkipped |-> 0, filesDeleted |-> 0, chunksCreated |-> 0,
   errors |-> <<>>]

\* a catch block that ends the loop instead of going on with it
AfterError_Abort(items) == <<>>

\* the catch block of a reconciliation loop: the error is recorded and the
\* loop goes on with the artifact after the one that failed
AfterError(items) == Tail(items)

(***************************************************************************)
(* database/operations                                                     *)
(***************************************************************************)
getFileByPath(fs, path) == {f \in fs : f.path = path}

\* SELECT * FROM files, in rowid order
RECURSIVE getAllFiles(_)
getAllFiles(fs) ==
  IF fs = {} THEN <<>>
  ELSE LET f == CHOOSE x \in fs : \A y \in fs : x.id <= y.id
       IN  <<f>> \o getAllFiles(fs \ {f})

insertFile(fs, id, path, hash) == fs \cup {[id |-> id, path |-> path, hash |-> hash]}

\* a hash update that is lost
updateFileHash_Lost(fs, fileId, hash) == fs

updateFileHash(fs, fileId, hash) ==
  {IF f.id = fileId THEN [f EXCEPT !.hash = hash] ELSE f : f \in fs}

\* a delete that removes no row
deleteFile_None(fs, fileId) == fs

\* DELETE FROM files WHERE id = ?
deleteFile(fs, fileId) == {f \in fs : f.id # fileId}

\* a delete that leaves the first chunk of the file
deleteChunksByFileId_KeepsFirst(cs, fileId) ==
  {c \in cs : c.file_id # fileId \/ c.chunk_index = 0}

\* DELETE FROM chunks WHERE file_id = ?  (chunks_fts is not touched)
deleteChunksByFileId(cs, fileId) == {c \in cs : c.file_id # fileId}

\* FOREIGN KEY (file_id) REFERENCES files(id) ON DELETE CASCADE
cascadeFileDelete(cs, fileId) == {c \in cs : c.file_id # fileId}

insertChunkWithEmbedding(cs, id, fileId, chunkIndex, content) ==
  cs \cup {[id |-> id, file_id |-> fileId, chunk_index |-> chunkIndex,
            content |-> content]}

(***************************************************************************)
(* indexFiles                                                              *)
(***************************************************************************)
\* findMarkdownFiles: the paths on disk, in listing order
RECURSIVE PresentFrom(_, _)
PresentFrom(d, k) ==
  IF k > Len(Paths) THEN <<>>
  ELSE (IF d[Paths[k]] # Absent THEN <<Paths[k]>> ELSE <<>>) \o PresentFrom(d, k + 1)

findMarkdownFiles(d) == PresentFrom(d, 1)

currentFilePaths(d) == {p \in PathSet : d[p] # Absent}

ChunkOff ==
  /\ ck_text = <<>>
  /\ ck_chunkSize = 0
  /\ ck_overlap = 0
  /\ ck_start = 0
  /\ ck_end = 0
  /\ ck_chunks = <<>>
  /\ ck_pc = "off"

ZeroResult ==
  [conversationsIndexed |-> 0, exchangesIndexed |-> 0,
   conversationsSkipped |-> 0, conversationsDeleted |-> 0, errors |-> <<>>]

ConvOff ==
  /\ archive = <<>>
  /\ opencode = <<>>
  /\ conversations = {}
  /\ exchanges = {}
  /\ uuid = 0
  /\ cv_pc = "off"
  /\ cv_source = ""
  /\ cv_stale = <<>>
  /\ cv_items = <<>>
  /\ result = ZeroResult
  /\ cv_runs = 0
  /\ cv_failures = 0
  /\ cv_snap = <<>>
  /\ cv_clean = <<>>

RRFOff ==
  /\ rrf_lists = <<>>
  /\ rrf_k = 0
  /\ rrf_merged = <<>>
  /\ rrf_pc = "off"

\* DEFAULT_CONFIG.rrfK
DefaultRrfK == 60

\* loadConfig: the default, or parseInt(CONTEXT_CACHE_RRF_K)
ConfiguredKs == {DefaultRrfK, 1}

HybridOff ==
  /\ hy_chunks = {}
  /\ hy_bm25 = <<>>
  /\ hy_vector = <<>>
  /\ hy_limit = 0
  /\ hy_pc = "off"
  /\ hy_bm25Results = <<>>
  /\ hy_vectorResults = <<>>
  /\ hy_topResults = <<>>
  /\ hy_i = 0
  /\ hy_results = <<>>
  /\ hy_missed = {}
  /\ hy_deletes = 0
  /\ hy_rrfK = DefaultRrfK

VectorOff ==
  /\ vs_rows = <<>>
  /\ vs_query = <<>>
  /\ vs_limit = 0
  /\ vs_chunks = <<>>
  /\ vs_results = <<>>
  /\ vs_pc = "off"

ParseOff ==
  /\ ps_source = ""
  /\ ps_input = <<>>
  /\ ps_exchanges = <<>>
  /\ ps_rows = {}
  /\ ps_runs = 0
  /\ ps_pc = "off"

ConvSearchOff ==
  /\ cs_store = <<>>
  /\ cs_query = <<>>
  /\ cs_limit = 0
  /\ cs_after = <<>>
  /\ cs_before = <<>>
  /\ cs_rows = <<>>
  /\ cs_pc = "off"

ShowOff ==
  /\ sh_events = <<>>
  /\ sh_startLine = 0
  /\ sh_endLine = 0
  /\ sh_output = <<>>
  /\ sh_pc = "off"

StoreOff ==
  /\ st_pc = "off"
  /\ st_kind = ""
  /\ st_query = <<>>
  /\ st_limit = 0
  /\ st_results = <<>>
  /\ st_resets = 0

LaterOff == ShowOff /\ StoreOff

QueryOff == VectorOff /\ ParseOff /\ ConvSearchOff /\ LaterOff

SearchOff == RRFOff /\ HybridOff /\ QueryOff

Init ==
  /\ ChunkOff
  /\ ConvOff
  /\ SearchOff
  /\ disk \in [PathSet -> Contents \cup {Absent}]
  /\ config \in Configs
  /\ files = {}
  /\ chunks = {}
  /\ chunks_fts = {}
  /\ seqFiles = 0
  /\ seqChunks = 0
  /\ pc = "idle"
  /\ dbFiles = <<>>
  /\ markdownFiles = <<>>
  /\ cur = NoCur
  /\ stats = ZeroStats
  /\ runs = 0
  /\ failures = 0
  /\ snap = [files |-> {}, chunks |-> {}, fts |-> {}, disk |-> disk, same |-> FALSE]
  /\ unchanged = FALSE

\* the tree changes between two runs: a file is written, created or removed
DiskChange ==
  /\ pc = "idle"
  /\ runs < MaxRuns
  /\ \E p \in PathSet, c \in Contents \cup {Absent} :
       /\ c # disk[p]
       /\ disk' = [disk EXCEPT ![p] = c]
  /\ unchanged' = FALSE
  /\ UNCHANGED <<chunkVars, convVars, searchVars>>
  /\ UNCHANGED <<config, files, chunks, chunks_fts, seqFiles, seqChunks, pc,
                 dbFiles, markdownFiles, cur, stats, runs, failures, snap>>

\* lines 33-56: the call, up to the deletion loop
StartRun ==
  /\ pc = "idle"
  /\ runs < MaxRuns
  /\ stats' = ZeroStats
  /\ markdownFiles' = findMarkdownFiles(disk)
  /\ dbFiles' = getAllFiles(files)
  /\ cur' = NoCur
  /\ snap' = [files |-> files, chunks |-> chunks, fts |-> chunks_fts,
              disk |-> disk, same |-> unchanged /\ runs > 0]
  /\ pc' = "prune"
  /\ UNCHANGED <<chunkVars, convVars, searchVars>>
  /\ UNCHANGED <<disk, config, files, chunks, chunks_fts, seqFiles, seqChunks,
                 runs, failures, unchanged>>

\* lines 57-61: next row of the deletion loop; deleteChunksByFileId
PruneNext ==
  /\ pc = "prune"
  /\ dbFiles # <<>>
  /\ LET dbFile == Head(dbFiles)
     IN  IF dbFile.path \in currentFilePaths(disk)
         THEN /\ dbFiles' = Tail(dbFiles)
              /\ UNCHANGED <<chunks, pc>>
         ELSE /\ chunks' = deleteChunksByFileId(chunks, dbFile.id)
              /\ pc' = "pruneFile"
              /\ UNCHANGED dbFiles
  /\ UNCHANGED <<chunkVars, convVars, searchVars>>
  /\ UNCHANGED <<disk, config, files, chunks_fts, seqFiles, seqChunks,
                 markdownFiles, cur, stats, runs, failures, snap, unchanged>>

\* lines 62-63: deleteFile (ON DELETE CASCADE on chunks.file_id)
PruneDeleteFile ==
  /\ pc = "pruneFile"
  /\ LET dbFile == Head(dbFiles)
     IN  /\ files' = deleteFile(files, dbFile.id)
         /\ chunks' = cascadeFileDelete(chunks, dbFile.id)
  /\ stats' = [stats EXCEPT !.filesDeleted = @ + 1]
  /\ dbFiles' = Tail(dbFiles)
  /\ pc' = "prune"
  /\ UNCHANGED <<chunkVars, convVars, searchVars>>
  /\ UNCHANGED <<disk, config, chunks_fts, seqFiles, seqChunks, markdownFiles,
                 cur, runs, failures, snap, unchanged>>

\* line 70: the deletion loop is over
PruneDone ==
  /\ pc = "prune"
  /\ dbFiles = <<>>
  /\ pc' = "files"
  /\ UNCHANGED <<chunkVars, convVars, searchVars>>
  /\ UNCHANGED <<disk, config, files, chunks, chunks_fts, seqFiles, seqChunks,
                 dbFiles, markdownFiles, cur, stats, runs, failures, snap,
                 unchanged>>

\* lines 148-151 of processFileContent: read the file and chunk it
Process(fileId, path, old) ==
  [fileId |-> fileId, path |-> path,
   chunks |-> chunkText(disk[path], config.chunkSize, config.chunkOverlap),
   i |-> 0, old |-> old]

\* lines 70-88: next file of the loop, unchanged: skipped
FileSkip ==
  /\ pc = "files"
  /\ markdownFiles # <<>>
  /\ LET relativePath == Head(markdownFiles)
         fileHash == computeFileHash(disk[relativePath])
         existingFile == getFileByPath(files, relativePath)
     IN  /\ existingFile # {}
         /\ \E f \in existingFile : f.hash = fileHash
  /\ stats' = [stats EXCEPT !.filesProcessed = @ + 1, !.filesSkipped = @ + 1]
  /\ markdownFiles' = Tail(markdownFiles)
  /\ UNCHANGED <<chunkVars, convVars, searchVars>>
  /\ UNCHANGED <<disk, config, files, chunks, chunks_fts, seqFiles, seqChunks,
                 pc, dbFiles, cur, runs, failures, snap, unchanged>>

\* lines 70-94: next file of the loop, changed: deleteChunksByFileId
FileChanged ==
  /\ pc = "files"
  /\ markdownFiles # <<>>
  /\ LET relativePath == Head(markdownFiles)
         fileHash == computeFileHash(disk[relativePath])
         existingFile == getFileByPath(files, relativePath)
     IN  \E f \in existingFile :
           /\ f.hash # fileHash
           /\ chunks' = deleteChunksByFileId(chunks, f.id)
           /\ cur' = [NoCur EXCEPT !.fileId = f.id, !.path = relativePath,
                                   !.old = {c \in chunks : c.file_id = f.id}]
  /\ stats' = [stats EXCEPT !.filesProcessed = @ + 1, !.filesUpdated = @ + 1]
  /\ pc' = "updHash"
  /\ UNCHANGED <<chunkVars, convVars, searchVars>>
  /\ UNCHANGED <<disk, config, files, chunks_fts, seqFiles, seqChunks, dbFiles,
                 markdownFiles, runs, failures, snap, unchanged>>

\* lines 97-109 and 148-151: updateFileHash, then read and chunk the file
FileUpdateHash ==
  /\ pc = "updHash"
  /\ files' = updateFileHash(files, cur.fileId, computeFileHash(disk[cur.path]))
  /\ cur' = Process(cur.fileId, cur.path, cur.old)
  /\ pc' = IF cur'.chunks = Hang THEN "hung" ELSE "embed"
  /\ UNCHANGED <<chunkVars, convVars, searchVars>>
  /\ UNCHANGED <<disk, config, chunks, chunks_fts, seqFiles, seqChunks, dbFiles,
                 markdownFiles, stats, runs, failures, snap, unchanged>>

\* lines 70-82, 110-127 and 148-151: next file of the loop, new: insertFile,
\* then read and chunk the file
FileNew ==
  /\ pc = "files"
  /\ markdownFiles # <<>>
  /\ LET relativePath == Head(markdownFiles)
         fileHash == computeFileHash(disk[relativePath])
     IN  /\ getFileByPath(files, relativePath) = {}
         /\ seqFiles' = seqFiles + 1
         /\ files' = insertFile(files, seqFiles', relativePath, fileHash)
         /\ cur' = Process(seqFiles', relativePath, {})
  /\ stats' = [stats EXCEPT !.filesProcessed = @ + 1, !.filesAdded = @ + 1]
  /\ pc' = IF cur'.chunks = Hang THEN "hung" ELSE "embed"
  /\ UNCHANGED <<chunkVars, convVars, searchVars>>
  /\ UNCHANGED <<disk, config, chunks, chunks_fts, seqChunks, dbFiles,
                 markdownFiles, runs, failures, snap, unchanged>>

\* lines 154-169: embedder.generateEmbedding returns; insertChunkWithEmbedding
EmbedInsertChunk ==
  /\ pc = "embed"
  /\ cur.i < Len(cur.chunks)
  /\ seqChunks' = seqChunks + 1
  /\ chunks' = insertChunkWithEmbedding(chunks, seqChunks', cur.fileId, cur.i,
                                        cur.chunks[cur.i + 1])
  /\ pc' = "fts"
  /\ UNCHANGED <<chunkVars, convVars, searchVars>>
  /\ UNCHANGED <<disk, config, files, chunks_fts, seqFiles, dbFiles,
                 markdownFiles, cur, stats, runs, failures, snap, unchanged>>

\* lines 158 and 129-131: embedder.generateEmbedding throws; the catch of
\* the file loop records the error and the loop goes on
EmbedFail ==
  /\ pc = "embed"
  /\ cur.i < Len(cur.chunks)
  /\ failures < MaxFailures
  /\ failures' = failures + 1
  /\ stats' = [stats EXCEPT !.errors = Append(@, cur.path)]
  /\ markdownFiles' = AfterError(markdownFiles)
  /\ cur' = NoCur
  /\ pc' = "files"
  /\ UNCHANGED <<chunkVars, convVars, searchVars>>
  /\ UNCHANGED <<disk, config, files, chunks, chunks_fts, seqFiles, seqChunks,
                 dbFiles, runs, snap, unchanged>>

\* lines 171-174: INSERT INTO chunks_fts (rowid, content)
InsertFts ==
  /\ pc = "fts"
  /\ chunks_fts' = chunks_fts \cup
       {[rowid |-> seqChunks, content |-> cur.chunks[cur.i + 1]]}
  /\ stats' = [stats EXCEPT !.chunksCreated = @ + 1]
  /\ cur' = [cur EXCEPT !.i = @ + 1]
  /\ pc' = "embed"
  /\ UNCHANGED <<chunkVars, convVars, searchVars>>
  /\ UNCHANGED <<disk, config, files, chunks, seqFiles, seqChunks, dbFiles,
                 markdownFiles, runs, failures, snap, unchanged>>

\* lines 171-174 and 129-131: the INSERT INTO chunks_fts throws (the
\* database is locked by another process, the disk is full); the chunk row
\* of line 161 was committed by its own statement and stays; the catch of
\* the file loop records the error and the loop goes on
FtsFail ==
  /\ pc = "fts"
  /\ failures < MaxFailures
  /\ failures' = failures + 1
  /\ stats' = [stats EXCEPT !.errors = Append(@, cur.path)]
  /\ markdownFiles' = AfterError(markdownFiles)
  /\ cur' = NoCur
  /\ pc' = "files"
  /\ UNCHANGED <<chunkVars, convVars, searchVars>>
  /\ UNCHANGED <<disk, config, files, chunks, chunks_fts, seqFiles, seqChunks,
                 dbFiles, runs, snap, unchanged>>

\* line 154: all chunks of the file are written; next file
FileDone ==
  /\ pc = "embed"
  /\ cur.i >= Len(cur.chunks)
  /\ markdownFiles' = Tail(markdownFiles)
  /\ cur' = NoCur
  /\ pc' = "files"
  /\ UNCHANGED <<chunkVars, convVars, searchVars>>
  /\ UNCHANGED <<disk, config, files, chunks, chunks_fts, seqFiles, seqChunks,
                 dbFiles, stats, runs, failures, snap, unchanged>>

\* line 134: return stats
Return ==
  /\ pc = "files"
  /\ markdownFiles = <<>>
  /\ pc' = "idle"
  /\ runs' = runs + 1
  /\ unchanged' = TRUE
  /\ UNCHANGED <<chunkVars, convVars, searchVars>>
  /\ UNCHANGED <<disk, config, files, chunks, chunks_fts, seqFiles, seqChunks,
                 dbFiles, markdownFiles, cur, stats, failures, snap>>

Next ==
  \/ DiskChange
  \/ StartRun
  \/ PruneNext
  \/ PruneDeleteFile
  \/ PruneDone
  \/ FileSkip
  \/ FileChanged
  \/ FileUpdateHash
  \/ FileNew
  \/ EmbedInsertChunk
  \/ EmbedFail
  \/ InsertFts
  \/ FtsFail
  \/ FileDone
  \/ Return

Spec == Init /\ [][Next]_vars

(***************************************************************************)
(* One call of chunkText, pass by pass                                     *)
(***************************************************************************)
Chars == {"a", " "}

\* the texts of length at most n
RECURSIVE TextsUpTo(_)
TextsUpTo(n) ==
  IF n = 0 THEN {<<>>}
  ELSE LET shorter == TextsUpTo(n - 1)
       IN  shorter \cup {Append(t, c) : t \in {x \in shorter : Len(x) = n - 1}, c \in Chars}

NotesOff ==
  /\ disk = [p \in PathSet |-> Absent]
  /\ config \in Configs
  /\ files = {}
  /\ chunks = {}
  /\ chunks_fts = {}
  /\ seqFiles = 0
  /\ seqChunks = 0
  /\ pc = "off"
  /\ dbFiles = <<>>
  /\ markdownFiles = <<>>
  /\ cur = NoCur
  /\ stats = ZeroStats
  /\ runs = 0
  /\ failures = 0
  /\ snap = [files |-> {}, chunks |-> {}, fts |-> {}, disk |-> disk, same |-> FALSE]
  /\ unchanged = FALSE

\* a call chunkText(text, chunkSize, overlap) with 0 <= overlap < chunkSize
InitChunk ==
  /\ NotesOff
  /\ ConvOff
  /\ SearchOff
  /\ ck_text \in TextsUpTo(MaxTextLen)
  /\ ck_chunkSize \in 1..MaxChunkSize
  /\ ck_overlap \in 0..(ck_chunkSize - 1)
  /\ ck_start = 0
  /\ ck_end = 0
  /\ ck_chunks = <<>>
  /\ ck_pc = "entry"

\* lines 2-7: the short text is returned whole, else the loop is entered
ChunkEnter ==
  /\ ck_pc = "entry"
  /\ IF Len(ck_text) <= ck_chunkSize
     THEN ck_chunks' = <<ck_text>> /\ ck_pc' = "returned"
     ELSE ck_chunks' = <<>> /\ ck_pc' = "loop"
  /\ UNCHANGED <<ck_text, ck_chunkSize, ck_overlap, ck_start, ck_end>>
  /\ UNCHANGED <<notesVars, convVars, searchVars>>

\* lines 9-29: one pass of the while loop.  A call that returns makes at
\* most Len(text) passes, and the model follows a call for one pass more.
ChunkPass ==
  /\ ck_pc = "loop"
  /\ Len(ck_chunks) <= Len(ck_text)
  /\ IF ck_start < Len(ck_text)
     THEN LET end == WindowEnd(ck_text, ck_chunkSize, ck_start)
          IN  /\ ck_chunks' = Append(ck_chunks, Trim(Substring(ck_text, ck_start, end)))
              /\ ck_start' = end - ck_overlap
              /\ ck_end' = end
              /\ ck_pc' = IF end >= Len(ck_text) THEN "returned" ELSE "loop"
     ELSE /\ ck_pc' = "returned"
          /\ UNCHANGED <<ck_start, ck_end, ck_chunks>>
  /\ UNCHANGED <<ck_text, ck_chunkSize, ck_overlap>>
  /\ UNCHANGED <<notesVars, convVars, searchVars>>

NextChunk == ChunkEnter \/ ChunkPass

SpecChunk == InitChunk /\ [][NextChunk]_vars

\* C2: every call chunkText(text, chunkSize, overlap) with
\* 0 <= overlap < chunkSize returns: no pass of the while loop goes round
\* again with start where it was (the passes after it would all be the
\* same pass, and the loop would never end)
C2_ChunkTextReturns ==
  [][(ck_pc = "loop" /\ ck_pc' = "loop") => ck_start' # ck_start]_vars

(***************************************************************************)
(* What a reader of the store sees of one note                             *)
(***************************************************************************)
\* indexFiles has returned at least once and is not running
AtRest == pc = "idle" /\ runs > 0

\* the Fragments of the File rows with this path, as (position, text) pairs
FragmentsOf(fs, cs, path) ==
  {<<c.chunk_index, c.content>> :
     c \in {x \in cs : \E f \in getFileByPath(fs, path) : x.file_id = f.id}}

\* the File row of a path with its Fragments
ViewOf(fs, cs, path) ==
  [hashes |-> {f.hash : f \in getFileByPath(fs, path)},
   fragments |-> FragmentsOf(fs, cs, path)]

\* the Fragments a fresh fragmentation of a content gives
FreshFragments(content) ==
  LET cks == chunkText(content, config.chunkSize, config.chunkOverlap)
  IN  {<<i, cks[i + 1]>> : i \in 0..(Len(cks) - 1)}

\* the complete view of a file with this content
FreshView(content) ==
  IF content = Absent THEN [hashes |-> {}, fragments |-> {}]
  ELSE [hashes |-> {computeFileHash(content)}, fragments |-> FreshFragments(content)]

ErrorPaths == {stats.errors[k] : k \in 1..Len(stats.errors)}

\* C1: after every run of indexFiles every chunks_fts rowid is the id of a
\* current chunks row and the two tables have the same number of rows
C1_ShadowHasNoStaleRow ==
  AtRest => /\ {r.rowid : r \in chunks_fts} \subseteq {c.id : c \in chunks}
            /\ Cardinality(chunks_fts) = Cardinality(chunks)

\* C3: a file whose processing failed in this run is stored exactly as it
\* was when the run started (or not at all, when it was new)
C3_FailedFileIsRolledBack ==
  \A p \in ErrorPaths :
    ViewOf(files, chunks, p) = ViewOf(snap.files, snap.chunks, p)

\* C4: at every moment of a run a reader sees, of each file, either the
\* File row and Fragments it had when the run started or the complete new
\* ones (nothing at all for a file removed from disk)
C4_ReaderSeesOldOrNew ==
  \A p \in PathSet :
    \/ ViewOf(files, chunks, p) = ViewOf(snap.files, snap.chunks, p)
    \/ ViewOf(files, chunks, p) = FreshView(snap.disk[p])

\* the files that were indexed before the run, were changed on disk, and
\* were processed by the run without error
UpdatedPaths ==
  {p \in PathSet :
     /\ snap.disk[p] # Absent
     /\ p \notin ErrorPaths
     /\ \E f \in getFileByPath(snap.files, p) : f.hash # computeFileHash(snap.disk[p])}

\* C5: once indexFiles has returned, a file that was already indexed, was
\* changed, and was processed without error has exactly the chunks of
\* chunkText(new content) at positions 0..n-1, and none of the chunks rows
\* it had before the run
C5_ChangedFileHasFreshFragments ==
  AtRest =>
    \A p \in UpdatedPaths :
      /\ FragmentsOf(files, chunks, p) = FreshFragments(snap.disk[p])
      /\ Cardinality({c \in chunks : \E f \in getFileByPath(files, p) : c.file_id = f.id})
           = Len(chunkText(snap.disk[p], config.chunkSize, config.chunkOverlap))
      /\ \A f \in getFileByPath(snap.files, p) :
           {c.id : c \in {x \in snap.chunks : x.file_id = f.id}}
             \cap {c.id : c \in chunks} = {}

C5_Witness ==
  /\ AtRest
  /\ stats.filesUpdated >= 1
  /\ \E p \in UpdatedPaths :
       /\ Cardinality(FragmentsOf(snap.files, snap.chunks, p)) >= 2
       /\ Cardinality(FragmentsOf(files, chunks, p)) = 1

\* C6: a run over a tree that was not touched since the previous run
\* returned writes nothing to files, chunks or chunks_fts, at any of its
\* steps, and counts no added, updated or deleted file and no created chunk
C6_UnchangedTreeWritesNothing ==
  snap.same =>
    /\ files = snap.files
    /\ chunks = snap.chunks
    /\ chunks_fts = snap.fts
    /\ stats.filesAdded = 0
    /\ stats.filesUpdated = 0
    /\ stats.filesDeleted = 0
    /\ stats.chunksCreated = 0

C6_Witness ==
  /\ AtRest
  /\ snap.same
  /\ runs >= 3
  /\ stats.filesSkipped = 2
  /\ chunks # {}

\* the File rows of the start of the run whose path is no longer on disk
GoneFiles == {f \in snap.files : snap.disk[f.path] = Absent}

\* C7: once indexFiles has returned, exactly the File rows whose path is
\* not on disk are gone, with all their Fragments; filesDeleted counts
\* them; the File row of every file still on disk remains, with its
\* Fragments when the file is unchanged
C7_RemovedFilesArePruned ==
  AtRest =>
    /\ \A f \in GoneFiles :
         /\ \A g \in files : g.id # f.id
         /\ \A c \in chunks : c.file_id # f.id
    /\ stats.filesDeleted = Cardinality(GoneFiles)
    /\ \A f \in snap.files \ GoneFiles :
         /\ \E g \in files : g.id = f.id /\ g.path = f.path
         /\ f.hash = computeFileHash(snap.disk[f.path]) =>
              /\ f \in files
              /\ \A c \in snap.chunks : c.file_id = f.id => c \in chunks

C7_Witness ==
  /\ AtRest
  /\ \E f \in GoneFiles : \E c \in snap.chunks : c.file_id = f.id
  /\ \E f \in snap.files \ GoneFiles : \E c \in chunks : c.file_id = f.id

(***************************************************************************)
(* Conversation sources.  An event log is kept as what its records say:    *)
(* the exchanges (user text, assistant text) and a stamp that stands for   *)
(* the timestamps and tool lists of the records.  The session.start record *)
(* of a log carries the session id of the file it is archived under, so    *)
(* distinct artifacts carry distinct session ids.                          *)
(***************************************************************************)
ArchivePaths == <<"s1.jsonl", "s2.jsonl">>
ArchivePathSet == {ArchivePaths[i] : i \in 1..Len(ArchivePaths)}
SessionIdOf == ("s1.jsonl" :> "s1") @@ ("s2.jsonl" :> "s2")

OpencodeSessions == <<"o1", "o2">>
OpencodeSessionSet == {OpencodeSessions[i] : i \in 1..Len(OpencodeSessions)}
OpencodeDbPath == "opencode.db"

OneExchange == << <<"q1", "r1">> >>
ThreeExchanges == << <<"q1", "r1">>, <<"q2", "r2">>, <<"q3", "r3">> >>

\* a log without a session.start record
Invalid == [kind |-> "invalid", exchanges |-> <<>>, stamp |-> 0]

\* no file at the path, no session with the id
NoArtifact == [kind |-> "absent", exchanges |-> <<>>, stamp |-> 0]

LogContents ==
  { [kind |-> "log", exchanges |-> OneExchange, stamp |-> 0],
    [kind |-> "log", exchanges |-> OneExchange, stamp |-> 1],
    [kind |-> "log", exchanges |-> ThreeExchanges, stamp |-> 0],
    Invalid }

SessionContents ==
  { [kind |-> "session", exchanges |-> OneExchange, stamp |-> 0] }

\* the artifacts that exist, in listing order
RECURSIVE ListPresent(_, _, _)
ListPresent(artifacts, order, k) ==
  IF k > Len(order) THEN <<>>
  ELSE (IF artifacts[order[k]] # NoArtifact THEN <<order[k]>> ELSE <<>>)
         \o ListPresent(artifacts, order, k + 1)

\* computeConversationFileHash: SHA-256 of the file at the path; for the
\* OpenCode source the path is the database file, whatever the session
computeConversationFileHash(source, key) ==
  IF source = "copilot" THEN <<"sha256", archive[key]>>
  ELSE <<"sha256", opencode>>

\* parseCopilotConversation / parseOpencodeConversation: the Conversation
\* of an artifact
ParsedConversation(source, key) ==
  IF source = "copilot"
  THEN [id |-> SessionIdOf[key], source |-> "copilot", archivePath |-> key,
        exchangeCount |-> Len(archive[key].exchanges)]
  ELSE [id |-> key, source |-> "opencode", archivePath |-> OpencodeDbPath,
        exchangeCount |-> Len(opencode[key].exchanges)]

\* the Exchanges of an artifact, in order
ParsedExchanges(source, key) ==
  IF source = "copilot" THEN archive[key].exchanges ELSE opencode[key].exchanges

\* the parser throws
ParseThrows(source, key) == source = "copilot" /\ archive[key] = Invalid

(***************************************************************************)
(* conversations/indexer: store operations                                 *)
(***************************************************************************)
getConversation(cs, id) == {c \in cs : c.id = id}

\* SELECT * FROM conversations WHERE source = ?, as a list
RECURSIVE RowsInOrder(_)
RowsInOrder(cs) ==
  IF cs = {} THEN <<>>
  ELSE LET c == CHOOSE x \in cs : \A y \in cs : x.rowid <= y.rowid
       IN  <<c>> \o RowsInOrder(cs \ {c})

getAllConversationsBySource(cs, source) == RowsInOrder({c \in cs : c.source = source})

\* an INSERT OR REPLACE that stores the empty hash of the migration
insertConversation_NoHash(cs, conversation, hash, rowid) ==
  {c \in cs : c.id # conversation.id} \cup
  {[id |-> conversation.id, source |-> conversation.source,
    archive_path |-> conversation.archivePath,
    exchange_count |-> conversation.exchangeCount, hash |-> <<>>,
    rowid |-> rowid]}

\* INSERT OR REPLACE INTO conversations
insertConversation(cs, conversation, hash, rowid) ==
  {c \in cs : c.id # conversation.id} \cup
  {[id |-> conversation.id, source |-> conversation.source,
    archive_path |-> conversation.archivePath,
    exchange_count |-> conversation.exchangeCount, hash |-> hash,
    rowid |-> rowid]}

\* a delete of exchanges that removes no row
deleteExchangesForConversation_None(es, conversationId) == es

\* DELETE FROM exchanges WHERE conversation_id = ?
deleteExchangesForConversation(es, conversationId) ==
  {e \in es : e.conversation_id # conversationId}

\* a foreign key without its cascade
cascadeConversationDelete_None(es, conversationId) == es

\* FOREIGN KEY (conversation_id) REFERENCES conversations(id) ON DELETE CASCADE
cascadeConversationDelete(es, conversationId) ==
  {e \in es : e.conversation_id # conversationId}

\* DELETE FROM conversations WHERE id = ?
deleteConversation(cs, id) == {c \in cs : c.id # id}

\* insertExchange for every parsed exchange, ids from randomUUID()
insertExchanges(es, conversationId, parsed, firstId) ==
  es \cup {[id |-> firstId + k, conversation_id |-> conversationId,
            exchange_index |-> k - 1, user_message |-> parsed[k][1],
            assistant_message |-> parsed[k][2]] : k \in 1..Len(parsed)}

(***************************************************************************)
(* indexConversationFiles, indexOpencodeDatabase                           *)
(***************************************************************************)
InitConv ==
  /\ NotesOff
  /\ ChunkOff
  /\ SearchOff
  /\ archive \in [ArchivePathSet -> LogContents \cup {NoArtifact}]
  /\ opencode \in [OpencodeSessionSet -> SessionContents \cup {NoArtifact}]
  /\ conversations = {}
  /\ exchanges = {}
  /\ uuid = 0
  /\ cv_pc = "idle"
  /\ cv_source = "copilot"
  /\ cv_stale = <<>>
  /\ cv_items = <<>>
  /\ result = ZeroResult
  /\ cv_runs = 0
  /\ cv_failures = 0
  /\ cv_snap = [conversations |-> {}, exchanges |-> {}, archive |-> archive,
                opencode |-> opencode, same |-> FALSE]
  /\ cv_clean = [src \in {"copilot", "opencode"} |-> FALSE]

\* an archive file is written, created or removed between two runs
ArchiveChange ==
  /\ cv_pc = "idle"
  /\ cv_runs < MaxConvRuns
  /\ \E p \in ArchivePathSet, c \in LogContents \cup {NoArtifact} :
       /\ c # archive[p]
       /\ archive' = [archive EXCEPT ![p] = c]
  /\ cv_clean' = [cv_clean EXCEPT !["copilot"] = FALSE]
  /\ UNCHANGED <<opencode, conversations, exchanges, uuid, cv_pc, cv_source,
                 cv_stale, cv_items, result, cv_runs, cv_failures, cv_snap>>
  /\ UNCHANGED <<notesVars, chunkVars, searchVars>>

\* a session of the OpenCode database is written, created or removed
OpencodeChange ==
  /\ cv_pc = "idle"
  /\ cv_runs < MaxConvRuns
  /\ \E sid \in OpencodeSessionSet, c \in SessionContents \cup {NoArtifact} :
       /\ c # opencode[sid]
       /\ opencode' = [opencode EXCEPT ![sid] = c]
  /\ cv_clean' = [cv_clean EXCEPT !["opencode"] = FALSE]
  /\ UNCHANGED <<archive, conversations, exchanges, uuid, cv_pc, cv_source,
                 cv_stale, cv_items, result, cv_runs, cv_failures, cv_snap>>
  /\ UNCHANGED <<notesVars, chunkVars, searchVars>>

\* the artifacts handed to the run of a source
CurrentArtifacts(source) ==
  IF source = "copilot" THEN ListPresent(archive, ArchivePaths, 1)
  ELSE ListPresent(opencode, OpencodeSessions, 1)

Begin(source) ==
  /\ cv_pc = "idle"
  /\ cv_runs < MaxConvRuns
  /\ cv_source' = source
  /\ result' = ZeroResult
  /\ cv_stale' = getAllConversationsBySource(conversations, source)
  /\ cv_items' = CurrentArtifacts(source)
  /\ cv_snap' = [conversations |-> conversations, exchanges |-> exchanges,
                 archive |-> archive, opencode |-> opencode,
                 same |-> cv_clean[source]]
  /\ cv_pc' = "stale"
  /\ UNCHANGED <<archive, opencode, conversations, exchanges, uuid, cv_runs,
                 cv_failures, cv_clean>>
  /\ UNCHANGED <<notesVars, chunkVars, searchVars>>

\* indexConversationFiles, lines 90-103
BeginCopilot == Begin("copilot")

\* indexOpencodeDatabase, lines 22-43
BeginOpencode == Begin("opencode")

\* the artifact pointer of a row is absent from the list of the run
PointerGone(conv) ==
  IF cv_source = "copilot"
  THEN archive[conv.archive_path] = NoArtifact
  ELSE opencode[conv.id] = NoArtifact

\* lines 104-105 (44-45): the artifact of the row is in the list
StaleKeep ==
  /\ cv_pc = "stale"
  /\ cv_stale # <<>>
  /\ ~PointerGone(Head(cv_stale))
  /\ cv_stale' = Tail(cv_stale)
  /\ UNCHANGED <<archive, opencode, conversations, exchanges, uuid, cv_pc,
                 cv_source, cv_items, result, cv_runs, cv_failures, cv_snap,
                 cv_clean>>
  /\ UNCHANGED <<notesVars, chunkVars, searchVars>>

\* lines 104-108 (44-48): deleteConversation, the cascade removes its
\* exchanges in the same statement
StaleDelete ==
  /\ cv_pc = "stale"
  /\ cv_stale # <<>>
  /\ PointerGone(Head(cv_stale))
  /\ conversations' = deleteConversation(conversations, Head(cv_stale).id)
  /\ exchanges' = cascadeConversationDelete(exchanges, Head(cv_stale).id)
  /\ result' = [result EXCEPT !.conversationsDeleted = @ + 1]
  /\ cv_stale' = Tail(cv_stale)
  /\ UNCHANGED <<archive, opencode, uuid, cv_pc, cv_source, cv_items, cv_runs,
                 cv_failures, cv_snap, cv_clean>>
  /\ UNCHANGED <<notesVars, chunkVars, searchVars>>

StaleDone ==
  /\ cv_pc = "stale"
  /\ cv_stale = <<>>
  /\ cv_pc' = "items"
  /\ UNCHANGED <<archive, opencode, conversations, exchanges, uuid, cv_source,
                 cv_stale, cv_items, result, cv_runs, cv_failures, cv_snap,
                 cv_clean>>
  /\ UNCHANGED <<notesVars, chunkVars, searchVars>>

\* indexConversationFile line 45 throws; caught at lines 126-128
ItemParseError ==
  /\ cv_pc = "items"
  /\ cv_items # <<>>
  /\ ParseThrows(cv_source, Head(cv_items))
  /\ result' = [result EXCEPT !.errors = Append(@, Head(cv_items))]
  /\ cv_items' = AfterError(cv_items)
  /\ UNCHANGED <<archive, opencode, conversations, exchanges, uuid, cv_pc,
                 cv_source, cv_stale, cv_runs, cv_failures, cv_snap, cv_clean>>
  /\ UNCHANGED <<notesVars, chunkVars, searchVars>>

\* indexConversationFile lines 48-56: same hash, skipped
ItemSkip ==
  /\ cv_pc = "items"
  /\ cv_items # <<>>
  /\ ~ParseThrows(cv_source, Head(cv_items))
  /\ LET parsed == ParsedConversation(cv_source, Head(cv_items))
         fileHash == computeConversationFileHash(cv_source, Head(cv_items))
     IN  \E existing \in getConversation(conversations, parsed.id) :
           existing.hash = fileHash
  /\ result' = [result EXCEPT !.conversationsSkipped = @ + 1]
  /\ cv_items' = Tail(cv_items)
  /\ UNCHANGED <<archive, opencode, conversations, exchanges, uuid, cv_pc,
                 cv_source, cv_stale, cv_runs, cv_failures, cv_snap, cv_clean>>
  /\ UNCHANGED <<notesVars, chunkVars, searchVars>>

\* the artifact at the head of the loop has to be written
HeadIsNewOrChanged ==
  /\ cv_pc = "items"
  /\ cv_items # <<>>
  /\ ~ParseThrows(cv_source, Head(cv_items))
  /\ LET parsed == ParsedConversation(cv_source, Head(cv_items))
         fileHash == computeConversationFileHash(cv_source, Head(cv_items))
     IN  \A existing \in getConversation(conversations, parsed.id) :
           existing.hash # fileHash

\* indexConversationFile lines 58-61: generateExchangeEmbeddings throws,
\* before the transaction is opened; caught at lines 126-128
ItemEmbedFail ==
  /\ HeadIsNewOrChanged
  /\ cv_failures < MaxConvFailures
  /\ cv_failures' = cv_failures + 1
  /\ result' = [result EXCEPT !.errors = Append(@, Head(cv_items))]
  /\ cv_items' = AfterError(cv_items)
  /\ UNCHANGED <<archive, opencode, conversations, exchanges, uuid, cv_pc,
                 cv_source, cv_stale, cv_runs, cv_snap, cv_clean>>
  /\ UNCHANGED <<notesVars, chunkVars, searchVars>>

\* a transaction whose writes stay when its function throws
rollback_Kept(committed, written) == written

\* db.transaction (better-sqlite3): when the function throws, the writes it
\* made are rolled back and the exception is passed on
rollback(committed, written) == committed

\* indexConversationFile lines 63-81: a row write inside the transaction
\* throws after the old exchanges were deleted and the conversation row was
\* replaced; the transaction is rolled back; caught at lines 126-128
ItemWriteFail ==
  /\ HeadIsNewOrChanged
  /\ cv_failures < MaxConvFailures
  /\ cv_failures' = cv_failures + 1
  /\ LET parsed == ParsedConversation(cv_source, Head(cv_items))
         fileHash == computeConversationFileHash(cv_source, Head(cv_items))
     IN  /\ conversations' =
              rollback(conversations,
                       insertConversation(conversations, parsed, fileHash, uuid))
         /\ exchanges' =
              rollback(exchanges,
                       deleteExchangesForConversation(exchanges, parsed.id))
  /\ result' = [result EXCEPT !.errors = Append(@, Head(cv_items))]
  /\ cv_items' = AfterError(cv_items)
  /\ UNCHANGED <<archive, opencode, uuid, cv_pc, cv_source, cv_stale, cv_runs,
                 cv_snap, cv_clean>>
  /\ UNCHANGED <<notesVars, chunkVars, searchVars>>

\* indexConversationFile lines 63-82: the transaction
ItemIndex ==
  /\ HeadIsNewOrChanged
  /\ LET parsed == ParsedConversation(cv_source, Head(cv_items))
         parsedExchanges == ParsedExchanges(cv_source, Head(cv_items))
         fileHash == computeConversationFileHash(cv_source, Head(cv_items))
     IN  /\ conversations' = insertConversation(conversations, parsed, fileHash, uuid)
         /\ exchanges' = insertExchanges(
                           deleteExchangesForConversation(exchanges, parsed.id),
                           parsed.id, parsedExchanges, uuid)
         /\ uuid' = uuid + Len(parsedExchanges) + 1
         /\ result' = [result EXCEPT !.conversationsIndexed = @ + 1,
                                     !.exchangesIndexed = @ + Len(parsedExchanges)]
  /\ cv_items' = Tail(cv_items)
  /\ UNCHANGED <<archive, opencode, cv_pc, cv_source, cv_stale, cv_runs,
                 cv_failures, cv_snap, cv_clean>>
  /\ UNCHANGED <<notesVars, chunkVars, searchVars>>

\* line 131 (80): return result
ConvReturn ==
  /\ cv_pc = "items"
  /\ cv_items = <<>>
  /\ cv_pc' = "idle"
  /\ cv_runs' = cv_runs + 1
  /\ cv_clean' = [cv_clean EXCEPT ![cv_source] = (result.errors = <<>>)]
  /\ UNCHANGED <<archive, opencode, conversations, exchanges, uuid, cv_source,
                 cv_stale, cv_items, result, cv_failures, cv_snap>>
  /\ UNCHANGED <<notesVars, chunkVars, searchVars>>

NextConv ==
  \/ ArchiveChange
  \/ OpencodeChange
  \/ BeginCopilot
  \/ BeginOpencode
  \/ StaleKeep
  \/ StaleDelete
  \/ StaleDone
  \/ ItemParseError
  \/ ItemSkip
  \/ ItemEmbedFail
  \/ ItemWriteFail
  \/ ItemIndex
  \/ ConvReturn

SpecConv == InitConv /\ [][NextConv]_vars

(***************************************************************************)
(* Properties of the conversation indexer                                  *)
(***************************************************************************)
ConvAtRest == cv_pc = "idle" /\ cv_runs > 0

\* the artifact pointer of a row: archive path, or session id
PointerOf(conv) == IF conv.source = "copilot" THEN conv.archive_path ELSE conv.id

\* the artifacts of the source of the run, as they were when it started
SnapArtifacts == IF cv_source = "copilot" THEN cv_snap.archive ELSE cv_snap.opencode

SnapOrder == IF cv_source = "copilot" THEN ArchivePaths ELSE OpencodeSessions

ResultErrors == {result.errors[k] : k \in 1..Len(result.errors)}

\* the stored Exchanges of a Conversation as (position, user, assistant)
StoredExchanges(es, id) ==
  {<<e.exchange_index, e.user_message, e.assistant_message>> :
     e \in {x \in es : x.conversation_id = id}}

GoneConversations ==
  {c \in cv_snap.conversations :
     c.source = cv_source /\ SnapArtifacts[PointerOf(c)] = NoArtifact}

IdOf(key) == IF cv_source = "copilot" THEN SessionIdOf[key] ELSE key

\* the Conversation row and the Exchange rows stored under an id
RowsOf(cs, es, id) ==
  <<{c \in cs : c.id = id}, {e \in es : e.conversation_id = id}>>

\* the fingerprint indexConversationFile computed for the artifact in the run
SnapFileHash(key) ==
  IF cv_source = "copilot" THEN <<"sha256", cv_snap.archive[key]>>
  ELSE <<"sha256", cv_snap.opencode>>

\* every write of the transaction for the artifact is in the store
FullyIngested(key) ==
  LET parsed == SnapArtifacts[key].exchanges
  IN  /\ \E c \in conversations :
           /\ c.id = IdOf(key)
           /\ c.hash = SnapFileHash(key)
           /\ c.exchange_count = Len(parsed)
      /\ Cardinality({e \in exchanges : e.conversation_id = IdOf(key)}) = Len(parsed)
      /\ StoredExchanges(exchanges, IdOf(key)) =
           {<<k - 1, parsed[k][1], parsed[k][2]>> : k \in 1..Len(parsed)}

\* C11: at every moment of a run the rows of a Conversation are those the
\* run found (no write of its re-ingestion took effect), or those of the
\* whole transaction (all took effect), or gone because its artifact is
\* gone; and a Conversation whose re-ingestion failed, in the embedder or in
\* a row write, has exactly the row, fingerprint and Exchanges the run
\* found, while those committed earlier in the run stay committed
C11_ReingestIsAtomic ==
  cv_pc # "off" =>
    \A key \in DOMAIN SnapArtifacts :
      LET now == RowsOf(conversations, exchanges, IdOf(key))
          before == RowsOf(cv_snap.conversations, cv_snap.exchanges, IdOf(key))
      IN  /\ key \in ResultErrors => now = before
          /\ \/ now = before
             \/ FullyIngested(key)
             \/ SnapArtifacts[key] = NoArtifact /\ now = <<{}, {}>>

\* the re-ingestion of a stored Conversation failed after another
\* Conversation was committed in the same run
C11_Witness ==
  /\ ConvAtRest
  /\ cv_source = "copilot"
  /\ result.conversationsIndexed = 1
  /\ result.errors = <<ArchivePaths[2]>>
  /\ SnapArtifacts[ArchivePaths[2]].kind = "log"
  /\ FullyIngested(ArchivePaths[1])
  /\ \E c \in cv_snap.conversations :
       /\ c.id = IdOf(ArchivePaths[2])
       /\ c.exchange_count > 0
       /\ c.hash # SnapFileHash(ArchivePaths[2])
       /\ c \in conversations

\* the three reconciliation loops, each started from its own initial state
InitLoops == Init \/ InitConv

NextLoops == Next \/ NextConv

SpecLoops == InitLoops /\ [][NextLoops]_vars

\* C12: when a run of indexFiles, indexConversationFiles or
\* indexOpencodeDatabase has returned, every artifact of its list was
\* visited, and each one is either stored with the fingerprint it had or
\* named in the error list of the summary: an error on one artifact ends
\* neither the loop nor the call
C12_ErrorNeverAbortsTheRun ==
  /\ AtRest =>
       /\ stats.filesProcessed = Len(findMarkdownFiles(snap.disk))
       /\ \A p \in currentFilePaths(snap.disk) :
            \/ p \in ErrorPaths
            \/ \E f \in files : f.path = p /\ f.hash = computeFileHash(snap.disk[p])
  /\ ConvAtRest =>
       /\ result.conversationsIndexed + result.conversationsSkipped
            + Len(result.errors) = Len(ListPresent(SnapArtifacts, SnapOrder, 1))
       /\ \A key \in DOMAIN SnapArtifacts :
            SnapArtifacts[key] # NoArtifact =>
              \/ key \in ResultErrors
              \/ \E c \in conversations :
                   c.id = IdOf(key) /\ c.hash = SnapFileHash(key)

\* the first file of a run failed and the second was indexed after it
C12_Witness ==
  /\ AtRest
  /\ stats.errors = <<Paths[1]>>
  /\ stats.filesProcessed = 2
  /\ stats.filesAdded = 2
  /\ \E f \in files :
       /\ f.path = Paths[2]
       /\ \E c \in chunks : c.file_id = f.id
       /\ \A c \in chunks : c.file_id = f.id =>
            \E r \in chunks_fts : r.rowid = c.id

\* the artifact of a stored Conversation parses to the Exchanges that are
\* stored for it: it differs from the ingested one in timestamps at most
SamePayload(c) ==
  LET a == SnapArtifacts[PointerOf(c)]
  IN  /\ a.kind \in {"log", "session"}
      /\ c.exchange_count = Len(a.exchanges)
      /\ StoredExchanges(cv_snap.exchanges, c.id) =
           {<<k - 1, a.exchanges[k][1], a.exchanges[k][2]>> : k \in 1..Len(a.exchanges)}

\* C13: a Conversation whose artifact has the identifier, session
\* identifier, source tag and Exchange positions and texts that are stored
\* for it has the same fingerprint and is skipped: the run writes none of
\* its rows
C13_SamePayloadIsSkipped ==
  cv_pc # "off" =>
    \A c \in cv_snap.conversations :
      (c.source = cv_source /\ SamePayload(c)) =>
        RowsOf(conversations, exchanges, c.id) =
          RowsOf(cv_snap.conversations, cv_snap.exchanges, c.id)

\* C14: when a run of indexFiles has returned, every row of chunks has
\* exactly one row of chunks_fts with its id as rowid, and that row has its
\* content, whether or not the run recorded an error
C14_FragmentHasShadowRow ==
  AtRest =>
    \A c \in chunks :
      /\ Cardinality({r \in chunks_fts : r.rowid = c.id}) = 1
      /\ \A r \in chunks_fts : r.rowid = c.id => r.content = c.content

(***************************************************************************)
(* Scores as exact fractions <<numerator, denominator>> in lowest terms.   *)
(* The sums of the fuser have few terms and distinct sums lie far apart,   *)
(* so the doubles of the code compare as the fractions do.                 *)
(***************************************************************************)
RECURSIVE GCD(_, _)
GCD(a, b) == IF b = 0 THEN a ELSE GCD(b, a % b)

Frac(n, d) == LET g == GCD(n, d) IN <<n \div g, d \div g>>

FracZero == <<0, 1>>

FracOne == <<1, 1>>

\* p + q
FracAdd(p, q) ==
  LET g == GCD(p[2], q[2])
  IN  Frac(p[1] * (q[2] \div g) + q[1] * (p[2] \div g), (p[2] \div g) * q[2])

\* p - q, for p >= q
FracSub(p, q) ==
  LET g == GCD(p[2], q[2])
  IN  Frac(p[1] * (q[2] \div g) - q[1] * (p[2] \div g), (p[2] \div g) * q[2])

\* p / q, for q > 0
FracDiv(p, q) ==
  LET g1 == GCD(p[1], q[1])
      g2 == GCD(p[2], q[2])
  IN  Frac((p[1] \div g1) * (q[2] \div g2), (p[2] \div g2) * (q[1] \div g1))

\* p < q, by the integer parts and then the reciprocals of the remainders
RECURSIVE FracLess(_, _)
FracLess(p, q) ==
  LET a == p[1] \div p[2]
      b == q[1] \div q[2]
      r == p[1] % p[2]
      t == q[1] % q[2]
  IN  IF a # b THEN a < b
      ELSE IF t = 0 THEN FALSE
      ELSE IF r = 0 THEN TRUE
      ELSE FracLess(<<q[2], t>>, <<p[2], r>>)

(***************************************************************************)
(* search/rrf: mergeWithRRF.  A ranked list is the list of its ids: the    *)
(* score field of an input entry is never read.                            *)
(***************************************************************************)
\* the default of parameter k
DefaultK == 60

\* a score with the rank counted from zero
rrfScore_ZeroBased(k, rank) == Frac(1, k + rank)

\* line 11: rrfScore = 1 / (k + rank + 1), rank the index of forEach
rrfScore(k, rank) == Frac(1, k + rank + 1)

\* a set that stores every contribution as an entry of its own
Accumulate_Appends(scores, id, score) == Append(scores, [id |-> id, score |-> score])

\* a set that overwrites the score of the id
Accumulate_Overwrites(scores, id, score) ==
  IF \E j \in 1..Len(scores) : scores[j].id = id
  THEN [j \in 1..Len(scores) |->
          IF scores[j].id = id THEN [scores[j] EXCEPT !.score = score]
          ELSE scores[j]]
  ELSE Append(scores, [id |-> id, score |-> score])

\* lines 12-13: scores.set(id, (scores.get(id) || 0) + rrfScore); a Map
\* iterates its keys in the order of their first insertion
Accumulate(scores, id, score) ==
  IF \E j \in 1..Len(scores) : scores[j].id = id
  THEN [j \in 1..Len(scores) |->
          IF scores[j].id = id THEN [scores[j] EXCEPT !.score = FracAdd(@, score)]
          ELSE scores[j]]
  ELSE Append(scores, [id |-> id, score |-> score])

\* lines 10-14: results.forEach((result, rank) => ...), for the ranks
\* from .. to - 1 in ascending order; a range of several ranks is
\* evaluated as its lower half and then, on the map that half leaves, its
\* upper half
RECURSIVE ForEachResult(_, _, _, _, _)
ForEachResult(scores, results, from, to, k) ==
  IF to <= from THEN scores
  ELSE IF to = from + 1
  THEN Accumulate(scores, results[from + 1], rrfScore(k, from))
  ELSE LET mid == (from + to) \div 2
           lower == ForEachResult(scores, results, from, mid, k)
       IN  IF Len(lower) > 0 THEN ForEachResult(lower, results, mid, to, k)
           ELSE lower

\* lines 9-15: for (const results of resultLists)
RECURSIVE ForEachList(_, _, _)
ForEachList(scores, resultLists, k) ==
  IF resultLists = <<>> THEN scores
  ELSE ForEachList(ForEachResult(scores, Head(resultLists), 0,
                                 Len(Head(resultLists)), k),
                   Tail(resultLists), k)

\* an insertion that puts an entry before the entries of its score
InsertSorted_TiesFirst(sorted, e) ==
  LET n == Cardinality({j \in 1..Len(sorted) : FracLess(e.score, sorted[j].score)})
  IN  SubSeq(sorted, 1, n) \o <<e>> \o SubSeq(sorted, n + 1, Len(sorted))

\* one insertion of a stable sort by score descending: the entry goes after
\* every entry whose score is not less than its own
InsertSorted(sorted, e) ==
  LET n == Cardinality({j \in 1..Len(sorted) : ~FracLess(sorted[j].score, e.score)})
  IN  SubSeq(sorted, 1, n) \o <<e>> \o SubSeq(sorted, n + 1, Len(sorted))

\* line 23: merged.sort((a, b) => b.score - a.score); Array.prototype.sort
\* is stable.  The entries from .. to of merged are inserted in their
\* order; a range of several entries is evaluated as its lower half and
\* then, on the list that half leaves, its upper half
RECURSIVE SortDescending(_, _, _, _)
SortDescending(sorted, merged, from, to) ==
  IF to < from THEN sorted
  ELSE IF to = from THEN InsertSorted(sorted, merged[from])
  ELSE LET mid == (from + to) \div 2
           lower == SortDescending(sorted, merged, from, mid)
       IN  IF Len(lower) > 0 THEN SortDescending(lower, merged, mid + 1, to)
           ELSE lower

mergeWithRRF(resultLists, k) ==
  LET merged == ForEachList(<<>>, resultLists, k)
  IN  SortDescending(<<>>, merged, 1, Len(merged))

(***************************************************************************)
(* One call of mergeWithRRF                                                *)
(***************************************************************************)
MaxListLen == 3

FragmentIds == {1, 2, 3, 4}

\* the lists of at most n ids, with and without repeated ids
RECURSIVE ListsUpTo(_)
ListsUpTo(n) ==
  IF n = 0 THEN {<<>>}
  ELSE LET shorter == ListsUpTo(n - 1)
       IN  shorter \cup
           {Append(l, id) : l \in {x \in shorter : Len(x) = n - 1}, id \in FragmentIds}

\* the ids 1 .. n
Ascending(n) == [j \in 1..n |-> j]

\* the ids 2n-1 .. n: a list that has its last id, n, in common with
\* Ascending(n), and at the same rank
Descending(n) == [j \in 1..n |-> 2 * n - j]

\* no list, one list or two lists of a few ids; and two long lists, of
\* k + 1 and of k + 2 entries for the default k
Inputs ==
  {<<>>} \cup {<<l>> : l \in ListsUpTo(MaxListLen)}
         \cup (ListsUpTo(MaxListLen) \X ListsUpTo(MaxListLen))
         \cup {<<Ascending(n), Descending(n)>> : n \in {DefaultK + 1, DefaultK + 2}}
         \cup {<<Descending(n), Ascending(n)>> : n \in {DefaultK + 1, DefaultK + 2}}

Ks == {1, DefaultK}

InitRRF ==
  /\ NotesOff
  /\ ChunkOff
  /\ ConvOff
  /\ HybridOff
  /\ QueryOff
  /\ rrf_lists \in Inputs
  /\ rrf_k \in Ks
  /\ rrf_merged = <<>>
  /\ rrf_pc = "call"

\* lines 6-26: the call
MergeCall ==
  /\ rrf_pc = "call"
  /\ rrf_merged' = mergeWithRRF(rrf_lists, rrf_k)
  /\ rrf_pc' = "returned"
  /\ UNCHANGED <<rrf_lists, rrf_k>>
  /\ UNCHANGED <<notesVars, chunkVars, convVars, hybridVars, queryVars>>

NextRRF == MergeCall

SpecRRF == InitRRF /\ [][NextRRF]_vars

(***************************************************************************)
(* Properties of mergeWithRRF                                              *)
(***************************************************************************)
RRFReturned == rrf_pc = "returned"

\* the ids of the returned list, in its order
MergedIds == [j \in 1..Len(rrf_merged) |-> rrf_merged[j].id]

Contains(list, id) == \E j \in 1..Len(list) : list[j] = id

NoRepeats(list) ==
  \A i, j \in 1..Len(list) : i # j => list[i] # list[j]

\* the zero-based position of an id in a list that contains it once
PositionOf(list, id) == CHOOSE r \in 0..(Len(list) - 1) : list[r + 1] = id

\* the sum, over the lists that contain the id, of 1 / (k + rank), with the
\* rank of the first entry of a list being first (0 or 1)
RECURSIVE ReciprocalRankSum(_, _, _, _)
ReciprocalRankSum(lists, id, k, first) ==
  IF lists = <<>> THEN FracZero
  ELSE FracAdd(IF Contains(Head(lists), id)
               THEN Frac(1, k + PositionOf(Head(lists), id) + first)
               ELSE FracZero,
               ReciprocalRankSum(Tail(lists), id, k, first))

\* the first visit of the id by the two loops, as <<list, rank>>
FirstVisit(lists, id) ==
  LET visits == UNION {{<<l, r>> : r \in {x \in 0..(Len(lists[l]) - 1) :
                                            lists[l][x + 1] = id}} :
                       l \in 1..Len(lists)}
  IN  CHOOSE v \in visits :
        \A w \in visits : v[1] < w[1] \/ (v[1] = w[1] /\ v[2] <= w[2])

VisitBefore(v, w) == v[1] < w[1] \/ (v[1] = w[1] /\ v[2] < w[2])

\* the call mergeWithRRF([[f1, f2, f3], [f2, f1, f4]], 60) has returned
S4Returned ==
  /\ RRFReturned
  /\ rrf_k = DefaultK
  /\ rrf_lists = << <<1, 2, 3>>, <<2, 1, 4>> >>

\* C15, as stated: the fusion of [f1, f2, f3] and [f2, f1, f4] with
\* K = 60 is f2, f1, f3, f4 or f2, f1, f4, f3
C15_F2BeforeF1 ==
  S4Returned => MergedIds \in {<<2, 1, 3, 4>>, <<2, 1, 4, 3>>}

\* C15, amended: the fusion of [f1, f2, f3] and [f2, f1, f4] with K = 60
\* is f1, f2, f3, f4; f1 and f2 have the same fused score, as have f3 and
\* f4, and within each pair the id inserted first comes first
C15_F1BeforeF2 ==
  S4Returned =>
    /\ MergedIds = <<1, 2, 3, 4>>
    /\ rrf_merged[1].score = rrf_merged[2].score
    /\ rrf_merged[3].score = rrf_merged[4].score
    /\ FracLess(rrf_merged[3].score, rrf_merged[2].score)

C15_Witness == S4Returned /\ Len(rrf_merged) = 4

\* the lists of the call have no repeated id
NoListRepeats == \A l \in 1..Len(rrf_lists) : NoRepeats(rrf_lists[l])

\* C16, as stated: the fused score of an id is the sum, over the lists that
\* contain it, of 1 / (K + rank) with rank its zero-based position, so
\* that the first entry of a list contributes 1 / K
C16_SumOfZeroBasedRanks ==
  (RRFReturned /\ NoListRepeats) =>
    \A j \in 1..Len(rrf_merged) :
      rrf_merged[j].score =
        ReciprocalRankSum(rrf_lists, rrf_merged[j].id, rrf_k, 0)

\* C16, amended: the fused score of an id is the sum, over the lists that
\* contain it, of 1 / (K + rank + 1) with rank its zero-based position, so
\* that the first entry of a list contributes 1 / (K + 1); a list without
\* the id contributes nothing
C16_SumOfOneBasedRanks ==
  (RRFReturned /\ NoListRepeats) =>
    \A j \in 1..Len(rrf_merged) :
      rrf_merged[j].score =
        ReciprocalRankSum(rrf_lists, rrf_merged[j].id, rrf_k, 1)

\* an id is first in one list and second in the other, and another id is
\* in one list only
C16_Witness ==
  /\ RRFReturned
  /\ NoListRepeats
  /\ rrf_k = DefaultK
  /\ Len(rrf_lists) = 2
  /\ \E j \in 1..Len(rrf_merged) :
       /\ Contains(rrf_lists[1], rrf_merged[j].id)
       /\ Contains(rrf_lists[2], rrf_merged[j].id)
       /\ PositionOf(rrf_lists[1], rrf_merged[j].id) = 0
       /\ PositionOf(rrf_lists[2], rrf_merged[j].id) = 1
       /\ rrf_merged[j].score = <<123, 3782>>
  /\ \E j \in 1..Len(rrf_merged) : ~Contains(rrf_lists[1], rrf_merged[j].id)

\* C17: the returned list has every id of the input lists exactly once, no
\* entry has a smaller score than a later one, and of two entries with the
\* same score the one whose id the loops visited first comes first
C17_EachIdOnceByScoreThenInsertion ==
  RRFReturned =>
    /\ {rrf_merged[j].id : j \in 1..Len(rrf_merged)} =
         UNION {{rrf_lists[l][r] : r \in 1..Len(rrf_lists[l])} :
                l \in 1..Len(rrf_lists)}
    /\ \A i, j \in 1..Len(rrf_merged) :
         i < j =>
           /\ rrf_merged[i].id # rrf_merged[j].id
           /\ ~FracLess(rrf_merged[i].score, rrf_merged[j].score)
           /\ rrf_merged[i].score = rrf_merged[j].score =>
                VisitBefore(FirstVisit(rrf_lists, rrf_merged[i].id),
                            FirstVisit(rrf_lists, rrf_merged[j].id))

\* an id of both lists, inserted last, is returned first; two ids tie
C17_Witness ==
  /\ RRFReturned
  /\ Len(rrf_lists) = 2
  /\ Len(rrf_merged) = 3
  /\ Contains(rrf_lists[1], rrf_merged[1].id)
  /\ Contains(rrf_lists[2], rrf_merged[1].id)
  /\ FirstVisit(rrf_lists, rrf_merged[1].id) = <<1, 1>>
  /\ FracLess(rrf_merged[2].score, rrf_merged[1].score)
  /\ rrf_merged[2].score = rrf_merged[3].score

InBoth(id) == Contains(rrf_lists[1], id) /\ Contains(rrf_lists[2], id)

\* two lists without repeated ids were fused with K = 60
TwoListsFused ==
  /\ RRFReturned
  /\ rrf_k = DefaultK
  /\ Len(rrf_lists) = 2
  /\ NoListRepeats

\* every id of both lists is returned before every id of one list only
SharedIdsFirst ==
  \A i, j \in 1..Len(rrf_merged) :
    (InBoth(rrf_merged[j].id) /\ ~InBoth(rrf_merged[i].id)) => j < i

\* C18, as stated: for two lists without repeated ids, of any lengths,
\* fused with K = 60, every id of both lists is placed before every id of
\* one list only
C18_SharedIdsFirstAnyLength == TwoListsFused => SharedIdsFirst

\* C18, amended: for two lists without repeated ids, of at most K + 1 = 61
\* entries each, fused with K = 60, every id of both lists is placed
\* before every id of one list only
C18_SharedIdsFirstUpTo61 ==
  (/\ TwoListsFused
   /\ Len(rrf_lists[1]) <= DefaultK + 1
   /\ Len(rrf_lists[2]) <= DefaultK + 1) => SharedIdsFirst

\* two lists of 61 entries that share their last id
C18_Witness ==
  /\ TwoListsFused
  /\ Len(rrf_lists[1]) = DefaultK + 1
  /\ Len(rrf_lists[2]) = DefaultK + 1
  /\ InBoth(rrf_merged[1].id)
  /\ \E j \in 1..Len(rrf_merged) : ~InBoth(rrf_merged[j].id)

(***************************************************************************)
(* search/hybrid: one call of hybridSearch.  The store is the set of the   *)
(* chunk ids that resolve (a chunks row joined with its files row), with   *)
(* the order in which each ranker ranks them for the query of the call.    *)
(* Another process (an indexer run) can delete chunks between two          *)
(* statements of the call.                                                 *)
(***************************************************************************)
MaxLimit == 2

MaxDeletes == 1

ChunkIds == {1, 2, 3, 4}

\* the orders of the elements of a set
Orderings(S) ==
  {f \in [1..Cardinality(S) -> S] : \A i, j \in 1..Cardinality(S) : i # j => f[i] # f[j]}

\* Array.prototype.slice(0, n)
Slice(s, n) == SubSeq(s, 1, Min(n, Len(s)))

\* bm25Search: the matching chunks_fts rows joined with chunks,
\* ORDER BY score ASC LIMIT ?
bm25Search(ranking, cs, limit) ==
  Slice(SelectSeq(ranking, LAMBDA id : id \in cs), limit)

\* vectorSearch: the chunks rows, sorted by similarity descending,
\* slice(0, limit)
vectorSearch(ranking, cs, limit) ==
  Slice(SelectSeq(ranking, LAMBDA id : id \in cs), limit)

\* a slice of twice the limit
topResults_TwiceLimit(merged, limit) == Slice(merged, limit * 2)

\* line 34: merged.slice(0, limit)
topResults(merged, limit) == Slice(merged, limit)

\* line 37
maxScore(top) == IF Len(top) > 0 THEN top[1].score ELSE FracOne

\* line 38
minScore(top) == IF Len(top) > 0 THEN top[Len(top)].score ELSE FracZero

\* line 39
scoreRange(top) == FracSub(maxScore(top), minScore(top))

\* lines 61-63
normalizedScore(score, top) ==
  IF FracLess(FracZero, scoreRange(top))
  THEN FracDiv(FracSub(score, minScore(top)), scoreRange(top))
  ELSE FracOne

InitHybrid ==
  /\ NotesOff
  /\ ChunkOff
  /\ ConvOff
  /\ RRFOff
  /\ QueryOff
  /\ hy_chunks \in SUBSET ChunkIds
  /\ hy_bm25 \in UNION {Orderings(T) : T \in SUBSET hy_chunks}
  /\ hy_vector \in Orderings(hy_chunks)
  /\ hy_limit \in 1..MaxLimit
  /\ hy_pc = "bm25"
  /\ hy_bm25Results = <<>>
  /\ hy_vectorResults = <<>>
  /\ hy_topResults = <<>>
  /\ hy_i = 0
  /\ hy_results = <<>>
  /\ hy_missed = {}
  /\ hy_deletes = 0
  /\ hy_rrfK \in ConfiguredKs

\* between two statements of the call an indexer run of another process
\* deletes a chunk (deleteChunksByFileId, deleteFile)
StoreDelete ==
  /\ hy_pc \in {"bm25", "vector", "merge", "hydrate"}
  /\ hy_deletes < MaxDeletes
  /\ \E id \in hy_chunks : hy_chunks' = hy_chunks \ {id}
  /\ hy_deletes' = hy_deletes + 1
  /\ UNCHANGED <<hy_bm25, hy_vector, hy_limit, hy_pc, hy_bm25Results,
                 hy_vectorResults, hy_topResults, hy_i, hy_results, hy_missed>>
  /\ UNCHANGED <<notesVars, chunkVars, convVars, rrfVars, hy_rrfK, queryVars>>

\* line 14: bm25Search(db, query, limit * 2)
Bm25Search ==
  /\ hy_pc = "bm25"
  /\ hy_bm25Results' = bm25Search(hy_bm25, hy_chunks, hy_limit * 2)
  /\ hy_pc' = "vector"
  /\ UNCHANGED <<hy_chunks, hy_bm25, hy_vector, hy_limit, hy_vectorResults,
                 hy_topResults, hy_i, hy_results, hy_missed, hy_deletes>>
  /\ UNCHANGED <<notesVars, chunkVars, convVars, rrfVars, hy_rrfK, queryVars>>

\* line 17: vectorSearch(db, queryEmbedding, limit * 2)
VectorSearch ==
  /\ hy_pc = "vector"
  /\ hy_vectorResults' = vectorSearch(hy_vector, hy_chunks, hy_limit * 2)
  /\ hy_pc' = "merge"
  /\ UNCHANGED <<hy_chunks, hy_bm25, hy_vector, hy_limit, hy_bm25Results,
                 hy_topResults, hy_i, hy_results, hy_missed, hy_deletes>>
  /\ UNCHANGED <<notesVars, chunkVars, convVars, rrfVars, hy_rrfK, queryVars>>

\* lines 20-42: mergeWithRRF([bm25Ranked, vectorRanked], 60); topResults
MergeAndSlice ==
  /\ hy_pc = "merge"
  /\ hy_topResults' =
       topResults(mergeWithRRF(<<hy_bm25Results, hy_vectorResults>>, 60), hy_limit)
  /\ hy_i' = 0
  /\ hy_results' = <<>>
  /\ hy_pc' = "hydrate"
  /\ UNCHANGED <<hy_chunks, hy_bm25, hy_vector, hy_limit, hy_bm25Results,
                 hy_vectorResults, hy_missed, hy_deletes>>
  /\ UNCHANGED <<notesVars, chunkVars, convVars, rrfVars, hy_rrfK, queryVars>>

\* lines 44-72: one pass of the loop over topResults: the chunk is read
\* and, when there is one, pushed with its normalized score
Hydrate ==
  /\ hy_pc = "hydrate"
  /\ hy_i < Len(hy_topResults)
  /\ LET ranked == hy_topResults[hy_i + 1]
     IN  IF ranked.id \in hy_chunks
         THEN /\ hy_results' =
                   Append(hy_results,
                          [chunk_id |-> ranked.id,
                           score |-> normalizedScore(ranked.score, hy_topResults)])
              /\ UNCHANGED hy_missed
         ELSE /\ hy_missed' = hy_missed \cup {ranked.id}
              /\ UNCHANGED hy_results
  /\ hy_i' = hy_i + 1
  /\ UNCHANGED <<hy_chunks, hy_bm25, hy_vector, hy_limit, hy_pc, hy_bm25Results,
                 hy_vectorResults, hy_topResults, hy_deletes>>
  /\ UNCHANGED <<notesVars, chunkVars, convVars, rrfVars, hy_rrfK, queryVars>>

\* line 74: return results
HybridReturn ==
  /\ hy_pc = "hydrate"
  /\ hy_i >= Len(hy_topResults)
  /\ hy_pc' = "returned"
  /\ UNCHANGED <<hy_chunks, hy_bm25, hy_vector, hy_limit, hy_bm25Results,
                 hy_vectorResults, hy_topResults, hy_i, hy_results, hy_missed,
                 hy_deletes>>
  /\ UNCHANGED <<notesVars, chunkVars, convVars, rrfVars, hy_rrfK, queryVars>>

NextHybrid ==
  \/ StoreDelete
  \/ Bm25Search
  \/ VectorSearch
  \/ MergeAndSlice
  \/ Hydrate
  \/ HybridReturn

SpecHybrid == InitHybrid /\ [][NextHybrid]_vars

(***************************************************************************)
(* Properties of hybridSearch                                              *)
(***************************************************************************)
HybridReturned == hy_pc = "returned"

\* C19: a non-empty list returned by hybridSearch has display score 1.0 in
\* its first result, every display score in [0, 1], and no display score
\* greater than the one before it
C19_TopIsOneAndScoresDescend ==
  (HybridReturned /\ hy_results # <<>>) =>
    /\ hy_results[1].score = FracOne
    /\ \A j \in 1..Len(hy_results) :
         /\ ~FracLess(hy_results[j].score, FracZero)
         /\ ~FracLess(FracOne, hy_results[j].score)
    /\ \A i, j \in 1..Len(hy_results) :
         i < j => ~FracLess(hy_results[i].score, hy_results[j].score)

\* the fusion of the two lists the rankers returned to the call
Fused == mergeWithRRF(<<hy_bm25Results, hy_vectorResults>>, 60)

\* C20: hybridSearch asks each ranker for at most 2N entries and returns at
\* most N results: the entries among the first N of the fusion of the two
\* lists whose chunk resolved, in the order of the fusion
C20_ResolvableOfFirstN ==
  HybridReturned =>
    LET firstN == SubSeq(Fused, 1, Min(hy_limit, Len(Fused)))
        resolved == SelectSeq(firstN, LAMBDA e : e.id \notin hy_missed)
    IN  /\ Len(hy_bm25Results) <= 2 * hy_limit
        /\ Len(hy_vectorResults) <= 2 * hy_limit
        /\ Len(hy_results) <= hy_limit
        /\ [j \in 1..Len(hy_results) |-> hy_results[j].chunk_id] =
             [j \in 1..Len(resolved) |-> resolved[j].id]
        /\ \A j \in 1..Len(firstN) : firstN[j].id \in hy_chunks => firstN[j].id \notin hy_missed
        /\ hy_missed \cap {hy_results[j].chunk_id : j \in 1..Len(hy_results)} = {}

\* the fusion has more than N entries, one of the first N did not resolve
\* and another did
C20_Witness ==
  /\ HybridReturned
  /\ Len(Fused) > hy_limit
  /\ hy_missed # {}
  /\ hy_results # <<>>

\* the fusion of the two lists with the fusion constant of the configuration
FusedWithConfiguredK ==
  mergeWithRRF(<<hy_bm25Results, hy_vectorResults>>, hy_rrfK)

\* the ids of the results returned
ReturnedIds == [j \in 1..Len(hy_results) |-> hy_results[j].chunk_id]

\* the ids hybridSearch returns when it fuses with the configured constant
IdsWithConfiguredK ==
  LET firstN == Slice(FusedWithConfiguredK, hy_limit)
      resolved == SelectSeq(firstN, LAMBDA e : e.id \notin hy_missed)
  IN  [j \in 1..Len(resolved) |-> resolved[j].id]

\* C21: hybridSearch fuses with the configured rrfK: the fused scores it
\* works with and the order of the results it returns are those of the
\* fusion computed with that constant
C21_FusesWithConfiguredK ==
  HybridReturned =>
    /\ hy_topResults = Slice(FusedWithConfiguredK, hy_limit)
    /\ (hy_missed = {} => ReturnedIds = IdsWithConfiguredK)

(***************************************************************************)
(* search/vector: cosineSimilarity and one call of vectorSearch.           *)
(* Embeddings are vectors of two small integers whose norms are integers,  *)
(* so every similarity is an exact ratio <<n, d>> with d > 0, or NaN.      *)
(***************************************************************************)
MaxRows == 3

MaxVectorLimit == 3

\* 0 / 0
NaN == <<0, 0>>

\* a NULL embedding column
NoEmbedding == <<>>

\* the stored embeddings: the zero vector, unit vectors and a longer one
Embeddings == {<<0, 0>>, <<1, 0>>, <<0, 1>>, <<3, 4>>}

\* the query embeddings
QueryEmbeddings == {<<1, 0>>, <<3, 4>>}

\* Math.sqrt of a square
Sqrt(n) == CHOOSE r \in 0..n : r * r = n

\* lines 9-21: dotProduct / (Math.sqrt(normA) * Math.sqrt(normB)); 0 / 0
\* is NaN
cosineSimilarity(a, b) ==
  LET dotProduct == a[1] * b[1] + a[2] * b[2]
      normA == a[1] * a[1] + a[2] * a[2]
      normB == b[1] * b[1] + b[2] * b[2]
      denominator == Sqrt(normA) * Sqrt(normB)
  IN  IF denominator = 0 THEN NaN
      ELSE <<dotProduct, denominator>>

\* x < y on numbers: false when one of them is NaN
NumLess(x, y) == x # NaN /\ y # NaN /\ x[1] * y[2] < y[1] * x[2]

\* x >= y on numbers: false when one of them is NaN
NumGeq(x, y) == x # NaN /\ y # NaN /\ x[1] * y[2] >= y[1] * x[2]

\* x = y on numbers: false when one of them is NaN
NumEq(x, y) == x # NaN /\ y # NaN /\ x[1] * y[2] = y[1] * x[2]

\* line 49: (a, b) => b.similarity - a.similarity, as the sort reads it:
\* negative, positive, or zero (a NaN counts as zero)
Comparator(a, b) ==
  IF NumLess(b.similarity, a.similarity) THEN -1
  ELSE IF NumLess(a.similarity, b.similarity) THEN 1
  ELSE 0

\* the comparator orders the array consistently: equality under it is
\* transitive
Consistent(arr) ==
  \A i, j, k \in 1..Len(arr) :
    (Comparator(arr[i], arr[j]) = 0 /\ Comparator(arr[j], arr[k]) = 0)
      => Comparator(arr[i], arr[k]) = 0

\* one insertion of a stable sort with the comparator
InsertByComparator(sorted, e) ==
  LET n == Cardinality({j \in 1..Len(sorted) : Comparator(sorted[j], e) <= 0})
  IN  SubSeq(sorted, 1, n) \o <<e>> \o SubSeq(sorted, n + 1, Len(sorted))

RECURSIVE StableSort(_, _)
StableSort(sorted, arr) ==
  IF arr = <<>> THEN sorted
  ELSE StableSort(InsertByComparator(sorted, Head(arr)), Tail(arr))

\* the arrays with the elements of arr in some order
Reorderings(arr) ==
  {[i \in 1..Len(arr) |-> arr[f[i]]] : f \in Orderings(1..Len(arr))}

\* Array.prototype.sort: stable with a consistent comparator, and an order
\* the implementation defines with an inconsistent one
SortOutcomes(arr) ==
  IF Consistent(arr) THEN {StableSort(<<>>, arr)} ELSE Reorderings(arr)

\* the chunks tables of up to n rows, ids in insertion order
RowsUpTo(n) ==
  UNION {[1..m -> Embeddings \cup {NoEmbedding}] : m \in 0..n}

InitVector ==
  /\ NotesOff
  /\ ChunkOff
  /\ ConvOff
  /\ RRFOff
  /\ HybridOff
  /\ ParseOff
  /\ ConvSearchOff
  /\ LaterOff
  /\ \E es \in RowsUpTo(MaxRows) :
       vs_rows = [i \in 1..Len(es) |-> [id |-> i, embedding |-> es[i]]]
  /\ vs_query \in QueryEmbeddings
  /\ vs_limit \in 1..MaxVectorLimit
  /\ vs_chunks = <<>>
  /\ vs_results = <<>>
  /\ vs_pc = "select"

\* lines 29-30: SELECT ... FROM chunks WHERE embedding IS NOT NULL
VectorSelect ==
  /\ vs_pc = "select"
  /\ vs_chunks' = SelectSeq(vs_rows, LAMBDA r : r.embedding # NoEmbedding)
  /\ vs_pc' = "map"
  /\ UNCHANGED <<vs_rows, vs_query, vs_limit, vs_results>>
  /\ UNCHANGED <<notesVars, chunkVars, convVars, rrfVars, hybridVars, parseVars,
                 convSearchVars, laterVars>>

\* lines 33-46: chunks.map
VectorMap ==
  /\ vs_pc = "map"
  /\ vs_results' =
       [i \in 1..Len(vs_chunks) |->
          [chunk_id |-> vs_chunks[i].id,
           similarity |-> cosineSimilarity(vs_query, vs_chunks[i].embedding)]]
  /\ vs_pc' = "sort"
  /\ UNCHANGED <<vs_rows, vs_query, vs_limit, vs_chunks>>
  /\ UNCHANGED <<notesVars, chunkVars, convVars, rrfVars, hybridVars, parseVars,
                 convSearchVars, laterVars>>

\* line 49: results.sort
VectorSort ==
  /\ vs_pc = "sort"
  /\ vs_results' \in SortOutcomes(vs_results)
  /\ vs_pc' = "slice"
  /\ UNCHANGED <<vs_rows, vs_query, vs_limit, vs_chunks>>
  /\ UNCHANGED <<notesVars, chunkVars, convVars, rrfVars, hybridVars, parseVars,
                 convSearchVars, laterVars>>

\* line 50: return results.slice(0, limit)
VectorReturn ==
  /\ vs_pc = "slice"
  /\ vs_results' = Slice(vs_results, vs_limit)
  /\ vs_pc' = "returned"
  /\ UNCHANGED <<vs_rows, vs_query, vs_limit, vs_chunks>>
  /\ UNCHANGED <<notesVars, chunkVars, convVars, rrfVars, hybridVars, parseVars,
                 convSearchVars, laterVars>>

NextVector ==
  \/ VectorSelect
  \/ VectorMap
  \/ VectorSort
  \/ VectorReturn

SpecVector == InitVector /\ [][NextVector]_vars

(***************************************************************************)
(* Properties of vectorSearch                                              *)
(***************************************************************************)
VectorReturned == vs_pc = "returned"

\* the stored embedding of a chunk has zero norm
ZeroNorm(id) ==
  /\ vs_rows[id].embedding # NoEmbedding
  /\ vs_rows[id].embedding[1] * vs_rows[id].embedding[1]
       + vs_rows[id].embedding[2] * vs_rows[id].embedding[2] = 0

\* C22: vectorSearch returns no Fragment whose stored embedding has zero
\* norm, and no returned pair has the similarity NaN
C22_NoZeroNormNoNaN ==
  VectorReturned =>
    \A j \in 1..Len(vs_results) :
      /\ ~ZeroNorm(vs_results[j].chunk_id)
      /\ vs_results[j].similarity # NaN

\* the similarity of a stored chunk to the query
SimilarityOf(id) == cosineSimilarity(vs_query, vs_rows[id].embedding)

\* the ids of the chunks with a stored embedding
WithEmbedding == {i \in 1..Len(vs_rows) : vs_rows[i].embedding # NoEmbedding}

\* C23: vectorSearch returns at most limit pairs, of chunks with a stored
\* embedding and each once; they are ordered by similarity descending,
\* chunks of equal similarity in insertion order; no chunk left out has a
\* higher similarity than a returned one, and none is left out while there
\* is room
C23_TopNBySimilarityThenInsertion ==
  VectorReturned =>
    LET n == Len(vs_results)
        returned == {vs_results[j].chunk_id : j \in 1..n}
    IN  /\ n <= vs_limit
        /\ n = Min(vs_limit, Cardinality(WithEmbedding))
        /\ returned \subseteq WithEmbedding
        /\ Cardinality(returned) = n
        /\ \A j \in 1..n : vs_results[j].similarity = SimilarityOf(vs_results[j].chunk_id)
        /\ \A i, j \in 1..n :
             i < j =>
               /\ NumGeq(vs_results[i].similarity, vs_results[j].similarity)
               /\ NumEq(vs_results[i].similarity, vs_results[j].similarity)
                    => vs_results[i].chunk_id < vs_results[j].chunk_id
        /\ \A i \in WithEmbedding \ returned :
             \A j \in 1..n :
               /\ NumGeq(vs_results[j].similarity, SimilarityOf(i))
               /\ NumEq(vs_results[j].similarity, SimilarityOf(i))
                    => vs_results[j].chunk_id < i

(***************************************************************************)
(* Properties of chunkText                                                 *)
(***************************************************************************)
ChunkReturned == ck_pc = "returned"

\* C24: every chunk chunkText returns is non-empty after trimming, for
\* every text and every setting with 0 <= overlap < chunkSize
C24_ChunksNonEmptyAfterTrim ==
  ChunkReturned => \A j \in 1..Len(ck_chunks) : Trim(ck_chunks[j]) # <<>>

\* C25: for a text longer than chunkSize, a pass of the loop that is
\* followed by another starts the next window chunkSize - overlap
\* characters after the start of its own, wherever its end was backed off to
C25_StartAdvancesBySizeMinusOverlap ==
  [][(ck_pc = "loop" /\ ck_pc' = "loop")
       => ck_start' = ck_start + ck_chunkSize - ck_overlap]_vars

(***************************************************************************)
(* conversations/parsers: the two extractExchanges.  A text is a sequence  *)
(* of characters, the empty sequence being ''.  An event or message is     *)
(* [type, content, tools]; its timestamp is its place in the input.  The   *)
(* exchange in progress is a sequence of no or one record (null or the     *)
(* object).  A randomUUID is the pair of the ingestion and the place of    *)
(* the user message.                                                       *)
(***************************************************************************)
MaxEvents == 4

MaxParseRuns == 2

Event(type, content, tools) == [type |-> type, content |-> content, tools |-> tools]

\* the events of a Copilot log: user and assistant messages with and
\* without text, a tool call, and a type the parser skips
CopilotEvents ==
  { Event("user.message", <<"u">>, <<>>),
    Event("user.message", <<>>, <<>>),
    Event("assistant.message", <<"a">>, <<>>),
    Event("assistant.message", <<>>, <<>>),
    Event("tool.call", <<>>, <<"t">>),
    Event("session.info", <<>>, <<>>) }

\* the messages of an OpenCode session, with the text and the tool calls of
\* their parts: user with and without text, assistant with text, with tool
\* calls only, with neither, and a role the parser skips
OpencodeMessages ==
  { Event("user", <<"u">>, <<>>),
    Event("user", <<>>, <<>>),
    Event("assistant", <<"a">>, <<>>),
    Event("assistant", <<>>, <<"t">>),
    Event("assistant", <<>>, <<>>),
    Event("system", <<>>, <<>>) }

\* the sequences over a set of length at most n
SeqsUpTo(S, n) == UNION {[1..m -> S] : m \in 0..n}

\* a new in-progress exchange
NewExchange(exchangeIndex, at, run, text) ==
  <<[id |-> <<run, at>>, exchangeIndex |-> exchangeIndex, timestamp |-> at,
     userMessage |-> text, assistantMessage |-> <<>>, toolCalls |-> <<>>]>>

\* the state of the loop before the first event
ParseStart == [exchanges |-> <<>>, currentExchange |-> <<>>, exchangeIndex |-> 0]

\* an exchange in progress is saved whatever its assistant text is
HasBothTexts_UserOnly(current) ==
  current # <<>> /\ current[1].userMessage # <<>>

\* rrf.ts lines 236-238 and 296, part_014 lines 122-124: the exchange in
\* progress has a user text and an assistant text
HasBothTexts(current) ==
  current # <<>> /\ current[1].userMessage # <<>> /\ current[1].assistantMessage # <<>>

\* the index goes up with every user message
IndexAfter_Always(exchangeIndex, saved) == exchangeIndex + 1

\* rrf.ts lines 239-240, part_014 lines 125-126: exchangeIndex++ stands
\* next to the push
IndexAfter(exchangeIndex, saved) ==
  IF saved THEN exchangeIndex + 1 ELSE exchangeIndex

\* rrf.ts lines 234-253: case 'user.message'
CopilotUserMessage(st, event, at, run) ==
  LET saved == HasBothTexts(st.currentExchange)
      index == IndexAfter(st.exchangeIndex, saved)
  IN  [exchanges |-> IF saved THEN st.exchanges \o st.currentExchange
                     ELSE st.exchanges,
       exchangeIndex |-> index,
       currentExchange |-> NewExchange(index, at, run, event.content)]

\* rrf.ts lines 255-277: case 'assistant.message'
CopilotAssistantMessage(st, event) ==
  IF st.currentExchange = <<>> THEN st
  ELSE LET current == st.currentExchange[1]
           text == IF current.assistantMessage # <<>>
                   THEN current.assistantMessage \o <<"\n">> \o event.content
                   ELSE event.content
       IN  [st EXCEPT !.currentExchange =
              <<[current EXCEPT !.assistantMessage = text,
                            !.toolCalls = current.toolCalls \o event.tools]>>]

\* rrf.ts lines 279-287: case 'tool.call', 'tool.invoke'
CopilotToolCall(st, event) ==
  IF st.currentExchange = <<>> \/ event.tools = <<>> THEN st
  ELSE LET current == st.currentExchange[1]
       IN  [st EXCEPT !.currentExchange =
              <<[current EXCEPT !.toolCalls = current.toolCalls \o event.tools]>>]

\* rrf.ts lines 232-293: the loop over the events from place at on
RECURSIVE CopilotLoop(_, _, _, _)
CopilotLoop(st, events, at, run) ==
  IF at > Len(events) THEN st
  ELSE LET event == events[at]
           next == IF event.type = "user.message"
                   THEN CopilotUserMessage(st, event, at, run)
                   ELSE IF event.type = "assistant.message"
                   THEN CopilotAssistantMessage(st, event)
                   ELSE IF event.type = "tool.call"
                   THEN CopilotToolCall(st, event)
                   ELSE st
       IN  CopilotLoop(next, events, at + 1, run)

\* rrf.ts lines 225-307: extractExchanges of the Copilot parser
copilotExtractExchanges(events, run) ==
  LET st == CopilotLoop(ParseStart, events, 1, run)
  IN  IF HasBothTexts(st.currentExchange)
      THEN st.exchanges \o st.currentExchange
      ELSE st.exchanges

\* part_014 lines 120-140: case 'user'
OpencodeUser(st, message, at, run) ==
  LET saved == HasBothTexts(st.currentExchange)
      index == IndexAfter(st.exchangeIndex, saved)
  IN  [exchanges |-> IF saved THEN st.exchanges \o st.currentExchange
                     ELSE st.exchanges,
       exchangeIndex |-> index,
       currentExchange |-> NewExchange(index, at, run, message.content)]

\* part_014 lines 142-161: case 'assistant'
OpencodeAssistant(st, message) ==
  IF st.currentExchange = <<>> THEN st
  ELSE IF message.content = <<>> /\ message.tools = <<>> THEN st
  ELSE LET current == st.currentExchange[1]
       IN  [st EXCEPT !.currentExchange =
              <<[current EXCEPT !.assistantMessage = message.content,
                            !.toolCalls = current.toolCalls \o message.tools]>>]

\* part_014 lines 115-167: the loop over the messages from place at on
RECURSIVE OpencodeLoop(_, _, _, _)
OpencodeLoop(st, messages, at, run) ==
  IF at > Len(messages) THEN st
  ELSE LET message == messages[at]
           next == IF message.type = "user"
                   THEN OpencodeUser(st, message, at, run)
                   ELSE IF message.type = "assistant"
                   THEN OpencodeAssistant(st, message)
                   ELSE st
       IN  OpencodeLoop(next, messages, at + 1, run)

\* part_014 lines 170-174: the last exchange is saved with an assistant
\* text or with tool calls
LastIsSaved(current) ==
  /\ current # <<>>
  /\ current[1].userMessage # <<>>
  /\ (current[1].assistantMessage # <<>> \/ Len(current[1].toolCalls) > 0)

\* part_014 lines 106-179: extractExchanges of the OpenCode parser
opencodeExtractExchanges(messages, run) ==
  LET st == OpencodeLoop(ParseStart, messages, 1, run)
  IN  IF LastIsSaved(st.currentExchange)
      THEN st.exchanges \o st.currentExchange
      ELSE st.exchanges

\* insertExchange: the row of an exchange
ExchangeRow(exchange) ==
  [id |-> exchange.id, exchange_index |-> exchange.exchangeIndex,
   timestamp |-> exchange.timestamp, user_message |-> exchange.userMessage,
   assistant_message |-> exchange.assistantMessage,
   tool_calls |-> exchange.toolCalls]

InputsOf(source) ==
  IF source = "copilot" THEN SeqsUpTo(CopilotEvents, MaxEvents)
  ELSE SeqsUpTo(OpencodeMessages, MaxEvents)

InitParse ==
  /\ NotesOff
  /\ ChunkOff
  /\ ConvOff
  /\ RRFOff
  /\ HybridOff
  /\ VectorOff
  /\ ConvSearchOff
  /\ LaterOff
  /\ ps_source \in {"copilot", "opencode"}
  /\ ps_input \in InputsOf(ps_source)
  /\ ps_exchanges = <<>>
  /\ ps_rows = {}
  /\ ps_runs = 0
  /\ ps_pc = "parse"

\* indexConversationFile line 46: parseCopilotConversation
ParseCopilot ==
  /\ ps_pc = "parse"
  /\ ps_source = "copilot"
  /\ ps_exchanges' = copilotExtractExchanges(ps_input, ps_runs)
  /\ ps_pc' = "store"
  /\ UNCHANGED <<ps_source, ps_input, ps_rows, ps_runs>>
  /\ UNCHANGED <<notesVars, chunkVars, convVars, rrfVars, hybridVars, vectorVars,
                 convSearchVars, laterVars>>

\* indexConversationFile line 43: parseOpencodeConversation
ParseOpencode ==
  /\ ps_pc = "parse"
  /\ ps_source = "opencode"
  /\ ps_exchanges' = opencodeExtractExchanges(ps_input, ps_runs)
  /\ ps_pc' = "store"
  /\ UNCHANGED <<ps_source, ps_input, ps_rows, ps_runs>>
  /\ UNCHANGED <<notesVars, chunkVars, convVars, rrfVars, hybridVars, vectorVars,
                 convSearchVars, laterVars>>

\* indexConversationFile lines 63-81: the transaction deletes the rows of
\* the Conversation and inserts the parsed exchanges
StoreExchanges ==
  /\ ps_pc = "store"
  /\ ps_rows' = {ExchangeRow(ps_exchanges[j]) : j \in 1..Len(ps_exchanges)}
  /\ ps_runs' = ps_runs + 1
  /\ ps_pc' = "done"
  /\ UNCHANGED <<ps_source, ps_input, ps_exchanges>>
  /\ UNCHANGED <<notesVars, chunkVars, convVars, rrfVars, hybridVars, vectorVars,
                 convSearchVars, laterVars>>

\* the log has grown by an event (the session by a message) at the next
\* run, which ingests it again
LogChanged ==
  /\ ps_pc = "done"
  /\ ps_runs < MaxParseRuns
  /\ \E event \in (IF ps_source = "copilot" THEN CopilotEvents ELSE OpencodeMessages) :
       ps_input' = Append(ps_input, event)
  /\ ps_pc' = "parse"
  /\ UNCHANGED <<ps_source, ps_exchanges, ps_rows, ps_runs>>
  /\ UNCHANGED <<notesVars, chunkVars, convVars, rrfVars, hybridVars, vectorVars,
                 convSearchVars, laterVars>>

NextParse ==
  \/ ParseCopilot
  \/ ParseOpencode
  \/ StoreExchanges
  \/ LogChanged

SpecParse == InitParse /\ [][NextParse]_vars

(***************************************************************************)
(* Properties of the parsers                                               *)
(***************************************************************************)
\* parsed.exchanges is the parse of ps_input
Parsed == ps_pc \in {"store", "done"}

\* C26: the positions of the stored Exchanges of the Conversation are
\* pairwise distinct and are exactly 0 .. n-1, after every ingestion of
\* every log or session the parsers accept
C26_PositionsContiguousFromZero ==
  /\ \A r1, r2 \in ps_rows : r1.exchange_index = r2.exchange_index => r1 = r2
  /\ {r.exchange_index : r \in ps_rows} = 0..(Cardinality(ps_rows) - 1)

\* the places of the messages that open an exchange
UserPlaces ==
  {i \in 1..Len(ps_input) : ps_input[i].type \in {"user.message", "user"}}

\* the places of the events up to the next user message or the end
SegmentOf(i) ==
  LET later == {j \in UserPlaces : j > i}
  IN  IF later = {} THEN (i + 1)..Len(ps_input)
      ELSE (i + 1)..((CHOOSE j \in later : \A k \in later : j <= k) - 1)

\* the assistant messages that answer the user message at place i
RepliesTo(i) ==
  {j \in SegmentOf(i) : ps_input[j].type \in {"assistant.message", "assistant"}}

\* the user message at place i has a text and a reply with a text
Complete(i) ==
  /\ ps_input[i].content # <<>>
  /\ \E j \in RepliesTo(i) : ps_input[j].content # <<>>

\* two or more Exchanges were stored at the second ingestion of a log in
\* which a user message was dropped
C26_Witness ==
  /\ ps_pc = "done"
  /\ ps_runs = 2
  /\ Cardinality(ps_rows) >= 2
  /\ Cardinality(UserPlaces) > Cardinality(ps_rows)

\* C27: the Copilot parser emits one Exchange for each user.message that,
\* when the next user.message arrives or the log ends, has a non-empty
\* user text and a non-empty assistant text, in the order of the log, and
\* none for any other
C27_EmittedIffBothTexts ==
  (Parsed /\ ps_source = "copilot") =>
    /\ {ps_exchanges[j].timestamp : j \in 1..Len(ps_exchanges)} =
         {i \in UserPlaces : Complete(i)}
    /\ \A j, k \in 1..Len(ps_exchanges) :
         j < k => ps_exchanges[j].timestamp < ps_exchanges[k].timestamp
    /\ \A j \in 1..Len(ps_exchanges) :
         /\ ps_exchanges[j].userMessage # <<>>
         /\ ps_exchanges[j].assistantMessage # <<>>

\* a user.message without a reply is followed by one with a reply, which
\* was emitted
C27_Witness ==
  /\ Parsed
  /\ ps_source = "copilot"
  /\ \E i, k \in UserPlaces :
       /\ i < k
       /\ ps_input[i].content # <<>>
       /\ RepliesTo(i) = {}
       /\ Complete(k)
       /\ \E j \in 1..Len(ps_exchanges) : ps_exchanges[j].timestamp = k

\* the user message at place i has a text, and the assistant turns that
\* answer it have no text and at least one tool call
ToolOnly(i) ==
  /\ ps_input[i].content # <<>>
  /\ \A j \in RepliesTo(i) : ps_input[j].content = <<>>
  /\ \E j \in RepliesTo(i) : ps_input[j].tools # <<>>

\* C28: the OpenCode parser emits an Exchange with the empty assistant
\* text and the tool names for a user message answered by an assistant
\* turn with tool calls and no text, wherever in the session it is
C28_ToolOnlyTurnIsAnExchange ==
  (Parsed /\ ps_source = "opencode") =>
    \A i \in UserPlaces :
      ToolOnly(i) =>
        \E j \in 1..Len(ps_exchanges) :
          /\ ps_exchanges[j].timestamp = i
          /\ ps_exchanges[j].assistantMessage = <<>>
          /\ Len(ps_exchanges[j].toolCalls) > 0

(***************************************************************************)
(* conversations/search: one call of searchConversations.  Strings are     *)
(* sequences of characters; SQLite compares TEXT values byte by byte and   *)
(* matches LIKE patterns without regard to the case of ASCII letters.      *)
(***************************************************************************)
MaxSearchLimit == 2

MaxExchanges == 2

\* the code of a character (ASCII)
CharCode(c) ==
  CASE c = "-" -> 45 [] c = "." -> 46 [] c = "0" -> 48 [] c = "1" -> 49
    [] c = "2" -> 50 [] c = "4" -> 52 [] c = "6" -> 54 [] c = "7" -> 55
    [] c = "8" -> 56 [] c = ":" -> 58 [] c = "T" -> 84 [] c = "Z" -> 90

\* x < y as SQLite compares two TEXT values (memcmp, then the length)
RECURSIVE TextLess(_, _)
TextLess(x, y) ==
  IF y = <<>> THEN FALSE
  ELSE IF x = <<>> THEN TRUE
  ELSE IF Head(x) # Head(y) THEN CharCode(Head(x)) < CharCode(Head(y))
  ELSE TextLess(Tail(x), Tail(y))

\* x <= y on TEXT values
TextLeq(x, y) == ~TextLess(y, x)

\* the lower-case letter of an ASCII letter
Lower(c) ==
  CASE c = "A" -> "a" [] c = "B" -> "b" [] c = "C" -> "c" [] OTHER -> c

\* text LIKE pattern: % matches any run of characters, _ any one
\* character, a letter itself in either case
RECURSIVE Like(_, _)
Like(text, pattern) ==
  IF pattern = <<>> THEN text = <<>>
  ELSE IF Head(pattern) = "%"
  THEN Like(text, Tail(pattern)) \/ (text # <<>> /\ Like(Tail(text), pattern))
  ELSE /\ text # <<>>
       /\ (Head(pattern) = "_" \/ Lower(Head(pattern)) = Lower(Head(text)))
       /\ Like(Tail(text), Tail(pattern))

\* line 139: `%${query}%`
LikePattern(query) == <<"%">> \o query \o <<"%">>

\* the days callers pass as after and before
Day(month) == <<"2", "0", "2", "4", "-", "0", month, "-", "0", "1">>

\* an event timestamp of a Copilot log on that day
CopilotStamp(month) ==
  Day(month) \o <<"T", "1", "0", ":", "0", "0", ":", "0", "0", "Z">>

\* new Date(session.time_created).toISOString() at the start of that day
OpencodeStamp(month) ==
  Day(month) \o <<"T", "0", "0", ":", "0", "0", ":", "0", "0", ".", "0", "0", "0", "Z">>

Months == {"6", "7", "8"}

\* conversations.timestamp
Timestamps == {CopilotStamp(m) : m \in Months} \cup {OpencodeStamp("7")}

\* options.after, options.before: not given, or a day
Bounds == {<<>>, Day("7")}

\* the user and assistant texts of an exchange
ExchangeTexts ==
  { [user |-> <<"a", "b", "c">>, assistant |-> <<"x">>],
    [user |-> <<"x">>, assistant |-> <<"a", "_", "c">>],
    [user |-> <<"x">>, assistant |-> <<"x">>] }

Queries == { <<"a", "_", "c">>, <<"B">>, <<"x">> }

ConversationIds == {"c1", "c2"}

\* the stores: every Conversation has a timestamp and one to MaxExchanges
\* Exchanges at the positions 0, 1, ...
Stores ==
  [ConversationIds ->
     [timestamp : Timestamps,
      exchanges : UNION {[1..n -> ExchangeTexts] : n \in 1..MaxExchanges}]]

\* FROM exchanges e JOIN conversations c ON e.conversation_id = c.id
JoinedRows(store) ==
  UNION {{[conversation_id |-> c, exchange_index |-> j - 1,
           user_message |-> store[c].exchanges[j].user,
           assistant_message |-> store[c].exchanges[j].assistant,
           conversation_timestamp |-> store[c].timestamp] :
            j \in 1..Len(store[c].exchanges)} : c \in DOMAIN store}

\* lines 133-139: e.user_message LIKE ? OR e.assistant_message LIKE ?
Matches(row, query) ==
  \/ Like(row.user_message, LikePattern(query))
  \/ Like(row.assistant_message, LikePattern(query))

\* lines 141-149: AND c.timestamp >= ? and AND c.timestamp <= ?, each
\* added when the option is a non-empty string
WithinBounds(row, after, before) ==
  /\ (after # <<>> => TextLeq(after, row.conversation_timestamp))
  /\ (before # <<>> => TextLeq(row.conversation_timestamp, before))

\* the rows the WHERE clause selects
Selected(store, query, after, before) ==
  {row \in JoinedRows(store) : Matches(row, query) /\ WithinBounds(row, after, before)}

\* line 151: row x comes before row y under
\* ORDER BY c.timestamp DESC, e.exchange_index ASC
OrderedBefore(x, y) ==
  \/ TextLess(y.conversation_timestamp, x.conversation_timestamp)
  \/ /\ x.conversation_timestamp = y.conversation_timestamp
     /\ x.exchange_index < y.exchange_index

\* the orders in which the statement can return a set of rows: rows that
\* the ORDER BY does not tell apart come in any order
RowOrders(rows) ==
  {o \in Orderings(rows) :
     \A i, j \in 1..Len(o) : i < j => ~OrderedBefore(o[j], o[i])}

InitConvSearch ==
  /\ NotesOff
  /\ ChunkOff
  /\ ConvOff
  /\ RRFOff
  /\ HybridOff
  /\ VectorOff
  /\ ParseOff
  /\ LaterOff
  /\ cs_store \in Stores
  /\ cs_query \in Queries
  /\ cs_limit \in 1..MaxSearchLimit
  /\ cs_after \in Bounds
  /\ cs_before \in Bounds
  /\ cs_rows = <<>>
  /\ cs_pc = "select"

\* lines 117-155: the statement is built and run; LIMIT ?
SearchSelect ==
  /\ cs_pc = "select"
  /\ \E o \in RowOrders(Selected(cs_store, cs_query, cs_after, cs_before)) :
       cs_rows' = Slice(o, cs_limit)
  /\ cs_pc' = "map"
  /\ UNCHANGED <<cs_store, cs_query, cs_limit, cs_after, cs_before>>
  /\ UNCHANGED <<notesVars, chunkVars, convVars, rrfVars, hybridVars, vectorVars,
                 parseVars, laterVars>>

\* lines 157-168: rows.map
SearchReturn ==
  /\ cs_pc = "map"
  /\ cs_rows' =
       [j \in 1..Len(cs_rows) |->
          [conversationId |-> cs_rows[j].conversation_id,
           timestamp |-> cs_rows[j].conversation_timestamp,
           exchangeIndex |-> cs_rows[j].exchange_index,
           userMessage |-> cs_rows[j].user_message,
           assistantMessage |-> cs_rows[j].assistant_message]]
  /\ cs_pc' = "returned"
  /\ UNCHANGED <<cs_store, cs_query, cs_limit, cs_after, cs_before>>
  /\ UNCHANGED <<notesVars, chunkVars, convVars, rrfVars, hybridVars, vectorVars,
                 parseVars, laterVars>>

NextConvSearch ==
  \/ SearchSelect
  \/ SearchReturn

SpecConvSearch == InitConvSearch /\ [][NextConvSearch]_vars

(***************************************************************************)
(* Properties of searchConversations                                       *)
(***************************************************************************)
SearchReturned == cs_pc = "returned"

\* text contains query as a substring, character by character
ContainsLiterally(text, query) ==
  \E i \in 0..(Len(text) - Len(query)) : SubSeq(text, i + 1, i + Len(query)) = query

\* the Exchanges, as results, whose user text or assistant text contains
\* the query and whose Conversation timestamp is within the bounds
Expected ==
  {[conversationId |-> row.conversation_id,
    timestamp |-> row.conversation_timestamp,
    exchangeIndex |-> row.exchange_index,
    userMessage |-> row.user_message,
    assistantMessage |-> row.assistant_message] :
     row \in {r \in JoinedRows(cs_store) :
                /\ \/ ContainsLiterally(r.user_message, cs_query)
                   \/ ContainsLiterally(r.assistant_message, cs_query)
                /\ WithinBounds(r, cs_after, cs_before)}}

\* result x comes before result y: timestamp descending, then position
\* ascending
ResultBefore(x, y) ==
  \/ TextLess(y.timestamp, x.timestamp)
  \/ x.timestamp = y.timestamp /\ x.exchangeIndex < y.exchangeIndex

\* C29: searchConversations returns the first limit, in the order
\* Conversation timestamp descending then position ascending, of the
\* Exchanges whose user or assistant text contains the query as a literal
\* substring and whose Conversation timestamp is within the bounds
C29_FirstLimitOfLiteralMatches ==
  SearchReturned =>
    LET returned == {cs_rows[j] : j \in 1..Len(cs_rows)}
    IN  /\ returned \subseteq Expected
        /\ Len(cs_rows) = Min(cs_limit, Cardinality(Expected))
        /\ Cardinality(returned) = Len(cs_rows)
        /\ \A i, j \in 1..Len(cs_rows) : i < j => ~ResultBefore(cs_rows[j], cs_rows[i])
        /\ \A x \in Expected \ returned : \A y \in returned : ~ResultBefore(x, y)

\* the first ten characters of a timestamp: its day
DayOf(timestamp) == SubSeq(timestamp, 1, 10)

\* C30: after and before are inclusive for a day given as YYYY-MM-DD: an
\* Exchange that matches the query, of a Conversation whose timestamp
\* falls on the day given as before or as after, and within the other
\* bound, is among the results when the limit leaves room
C30_BoundsIncludeTheirDay ==
  (SearchReturned /\ Len(cs_rows) < cs_limit) =>
    \A row \in JoinedRows(cs_store) :
      ( /\ Matches(row, cs_query)
        /\ cs_after # <<>> \/ cs_before # <<>>
        /\ cs_after # <<>> =>
             TextLeq(cs_after, DayOf(row.conversation_timestamp))
        /\ cs_before # <<>> =>
             TextLeq(DayOf(row.conversation_timestamp), cs_before) )
      => \E j \in 1..Len(cs_rows) :
           /\ cs_rows[j].conversationId = row.conversation_id
           /\ cs_rows[j].exchangeIndex = row.exchange_index

(***************************************************************************)
(* conversations/show.ts: showConversationByPath.  The log is the list of  *)
(* its parsed lines; a record is known by its type and its place.          *)
(***************************************************************************)

MaxShowEvents == 4

MaxShowLine == 2

ShowTypes == {"user.message", "assistant.message", "tool.call"}

\* lines 103-104: events.filter(e => e.type === type), as places in the log
FilterByType(events, type) ==
  LET F[k \in 0..Len(events)] ==
        IF k = 0 THEN <<>>
        ELSE IF events[k] = type THEN Append(F[k - 1], k) ELSE F[k - 1]
  IN  F[Len(events)]

\* lines 106-107
ShowStartIdx(startLine) == IF startLine # 0 THEN startLine - 1 ELSE 0

ShowEndIdx(endLine, userMessages, assistantMessages) ==
  IF endLine # 0 THEN endLine
  ELSE Min(Len(userMessages), Len(assistantMessages))

\* lines 109-125: the exchanges written, for i from startIdx below endIdx
RenderExchanges(events, startLine, endLine) ==
  LET userMessages == FilterByType(events, "user.message")
      assistantMessages == FilterByType(events, "assistant.message")
      startIdx == ShowStartIdx(startLine)
      endIdx == ShowEndIdx(endLine, userMessages, assistantMessages)
      R[i \in 0..Max(endIdx, 0)] ==
        IF i <= startIdx THEN <<>>
        ELSE IF i <= Len(userMessages) /\ i <= Len(assistantMessages)
             THEN Append(R[i - 1], [user |-> userMessages[i],
                                    assistant |-> assistantMessages[i]])
             ELSE R[i - 1]
  IN  R[Max(endIdx, 0)]

InitShow ==
  /\ NotesOff
  /\ ChunkOff
  /\ ConvOff
  /\ RRFOff
  /\ HybridOff
  /\ VectorOff
  /\ ParseOff
  /\ ConvSearchOff
  /\ StoreOff
  /\ sh_events \in SeqsUpTo(ShowTypes, MaxShowEvents)
  /\ sh_startLine \in 0..MaxShowLine
  /\ sh_endLine \in 0..MaxShowLine
  /\ sh_output = <<>>
  /\ sh_pc = "call"

\* lines 103-125: one call
ShowConversation ==
  /\ sh_pc = "call"
  /\ sh_output' = RenderExchanges(sh_events, sh_startLine, sh_endLine)
  /\ sh_pc' = "returned"
  /\ UNCHANGED <<notesVars, chunkVars, convVars, rrfVars, hybridVars, vectorVars,
                 parseVars, convSearchVars, storeVars>>
  /\ UNCHANGED <<sh_events, sh_startLine, sh_endLine>>

NextShow == ShowConversation

SpecShow == InitShow /\ [][NextShow]_vars

ShowReturned == sh_pc = "returned"

\* the assistant.message that follows the user.message at place u before
\* the next user.message, if there is one
FollowsDirectly(events, u, a) ==
  /\ u < a
  /\ \A k \in (u + 1)..(a - 1) : events[k] = "tool.call"

\* C31: every exchange written pairs a user.message with the
\* assistant.message that follows it in the log before the next
\* user.message
C31_PairsAdjacentRecords ==
  ShowReturned =>
    \A n \in 1..Len(sh_output) :
      FollowsDirectly(sh_events, sh_output[n].user, sh_output[n].assistant)


(***************************************************************************)
(* The store as a whole: database/reset.ts, search/bm25.ts,                *)
(* search/vector.ts and search/hybrid.ts over the tables indexFiles        *)
(* writes, next to the conversations and exchanges tables.                 *)
(***************************************************************************)

MaxResets == 1

MaxStoreRuns == 2

MaxStoreFailures == 1

MaxStoreLimit == 1

\* the tables and the sqlite_sequence rows of files and chunks
Database(fs, cs, fts, sf, sc, convs, exs) ==
  [files |-> fs, chunks |-> cs, chunks_fts |-> fts, seqFiles |-> sf,
   seqChunks |-> sc, conversations |-> convs, exchanges |-> exs]

\* a reset that leaves the shadow table as it is
resetDatabase_KeepsShadow(db, n) ==
  [db EXCEPT !.chunks = IF n >= 1 THEN {} ELSE @,
             !.files = IF n >= 2 THEN {} ELSE @,
             !.seqFiles = IF n >= 4 THEN 0 ELSE @,
             !.seqChunks = IF n >= 4 THEN 0 ELSE @]

\* the database after the first n statements of resetDatabase: DELETE FROM
\* chunks, DELETE FROM files, DELETE FROM chunks_fts, DELETE FROM
\* sqlite_sequence WHERE name IN ('files', 'chunks'), VACUUM
resetDatabase(db, n) ==
  [db EXCEPT !.chunks = IF n >= 1 THEN {} ELSE @,
             !.files = IF n >= 2 THEN {} ELSE @,
             !.chunks_fts = IF n >= 3 THEN {} ELSE @,
             !.seqFiles = IF n >= 4 THEN 0 ELSE @,
             !.seqChunks = IF n >= 4 THEN 0 ELSE @]

ResetStatements == 5

\* the words of a text: the maximal runs of characters other than spaces
IsWordAt(text, i, j) ==
  /\ \A k \in i..j : ~IsSpace(text[k])
  /\ (i = 1 \/ IsSpace(text[i - 1]))
  /\ (j = Len(text) \/ IsSpace(text[j + 1]))

\* chunks_fts MATCH ?: the text has the word of the query
Match(text, query) ==
  \E i, j \in 1..Len(text) : i <= j /\ IsWordAt(text, i, j) /\ SubSeq(text, i, j) = query

MatchingRowids(fts, query) == {r.rowid : r \in {x \in fts : Match(x.content, query)}}

ChunkIdsOf(cs) == {c.id : c \in cs}

ChunkById(cs, id) == CHOOSE c \in cs : c.id = id

\* bm25.ts lines 10-22: the rows of the statement, for one order of the scores
Bm25Rows(cs, ranking, limit) ==
  LET ids == bm25Search(ranking, ChunkIdsOf(cs), limit)
  IN  [j \in 1..Len(ids) |->
         [chunk_id |-> ids[j], content |-> ChunkById(cs, ids[j]).content]]

\* vector.ts lines 29-50: the results, for one order of the similarities
VectorRows(cs, ranking, limit) ==
  LET ids == vectorSearch(ranking, ChunkIdsOf(cs), limit)
  IN  [j \in 1..Len(ids) |->
         [chunk_id |-> ids[j], content |-> ChunkById(cs, ids[j]).content]]

\* hybrid.ts lines 44-72: the chunk of each fused entry joined with its
\* file; an entry without such a row is left out
RECURSIVE HydrateRows(_, _, _)
HydrateRows(fs, cs, top) ==
  IF top = <<>> THEN <<>>
  ELSE LET joined == {<<c, f>> \in cs \X fs : c.id = Head(top).id /\ c.file_id = f.id}
       IN  (IF joined = {} THEN <<>>
            ELSE LET row == CHOOSE x \in joined : TRUE
                 IN  <<[content |-> row[1].content, source_path |-> row[2].path,
                        chunk_index |-> row[1].chunk_index]>>)
           \o HydrateRows(fs, cs, Tail(top))

\* hybrid.ts lines 14-74
HybridRows(fs, cs, bm25Ranking, vectorRanking, limit) ==
  LET bm25Results == bm25Search(bm25Ranking, ChunkIdsOf(cs), limit * 2)
      vectorResults == vectorSearch(vectorRanking, ChunkIdsOf(cs), limit * 2)
      merged == mergeWithRRF(<<bm25Results, vectorResults>>, 60)
  IN  HydrateRows(fs, cs, topResults(merged, limit))

StoreQueries == { <<"a", "b">>, <<"c">> }

conv1 ==
  [id |-> "s1", source |-> "copilot", archivePath |-> "s1.jsonl", exchangeCount |-> 1]

\* the conversation tables after one conversation was ingested
IngestedStore ==
  [conversations |-> insertConversation({}, conv1, <<"sha256", "s1.jsonl">>, 1),
   exchanges |-> insertExchanges({}, "s1", OneExchange, 0)]

InitStore ==
  /\ ChunkOff
  /\ RRFOff
  /\ HybridOff
  /\ VectorOff
  /\ ParseOff
  /\ ConvSearchOff
  /\ ShowOff
  /\ disk \in [PathSet -> Contents \cup {Absent}]
  /\ config \in Configs
  /\ files = {}
  /\ chunks = {}
  /\ chunks_fts = {}
  /\ seqFiles = 0
  /\ seqChunks = 0
  /\ pc = "idle"
  /\ dbFiles = <<>>
  /\ markdownFiles = <<>>
  /\ cur = NoCur
  /\ stats = ZeroStats
  /\ runs = 0
  /\ failures = 0
  /\ snap = [files |-> {}, chunks |-> {}, fts |-> {},
             disk |-> [p \in PathSet |-> Absent], same |-> FALSE]
  /\ unchanged = FALSE
  /\ archive = <<>>
  /\ opencode = <<>>
  /\ conversations = IngestedStore.conversations
  /\ exchanges = IngestedStore.exchanges
  /\ uuid = 0
  /\ cv_pc = "off"
  /\ cv_source = ""
  /\ cv_stale = <<>>
  /\ cv_items = <<>>
  /\ result = ZeroResult
  /\ cv_runs = 0
  /\ cv_failures = 0
  /\ cv_snap = <<>>
  /\ cv_clean = <<>>
  /\ st_pc = "idle"
  /\ st_kind = ""
  /\ st_query = <<>>
  /\ st_limit = 0
  /\ st_results = <<>>
  /\ st_resets = 0

CurrentDatabase ==
  Database(files, chunks, chunks_fts, seqFiles, seqChunks, conversations, exchanges)

StoreIdle == pc = "idle" /\ st_pc = "idle"

\* the tables become those of db
WriteDatabase(db) ==
  /\ files' = db.files
  /\ chunks' = db.chunks
  /\ chunks_fts' = db.chunks_fts
  /\ seqFiles' = db.seqFiles
  /\ seqChunks' = db.seqChunks
  /\ conversations' = db.conversations
  /\ exchanges' = db.exchanges

\* index.ts lines 57-68: the rows of files whose path is not on disk are
\* deleted with their chunks
RECURSIVE PruneDeleted(_, _, _)
PruneDeleted(db, d, rows) ==
  IF rows = <<>> THEN db
  ELSE LET dbFile == Head(rows)
       IN  IF dbFile.path \in currentFilePaths(d)
           THEN PruneDeleted(db, d, Tail(rows))
           ELSE PruneDeleted(
                  [db EXCEPT !.chunks = cascadeFileDelete(
                                          deleteChunksByFileId(@, dbFile.id), dbFile.id),
                             !.files = deleteFile(@, dbFile.id)],
                  d, Tail(rows))

\* index.ts lines 154-176: the chunks from place i on are written, each
\* with its chunks_fts row, until `stop` statements have run: the embedder
\* throws before the next chunk (stop even) or the INSERT INTO chunks_fts
\* throws (stop odd)
RECURSIVE WriteChunks(_, _, _, _, _)
WriteChunks(db, fileId, cks, i, stop) ==
  IF i >= Len(cks) \/ stop = 0 THEN db
  ELSE LET id == db.seqChunks + 1
           written == [db EXCEPT !.seqChunks = id,
                                 !.chunks = insertChunkWithEmbedding(@, id, fileId, i,
                                                                     cks[i + 1])]
       IN  IF stop = 1 THEN written
           ELSE WriteChunks(
                  [written EXCEPT !.chunks_fts =
                                    @ \cup {[rowid |-> id, content |-> cks[i + 1]]}],
                  fileId, cks, i + 1, stop - 2)

\* index.ts lines 70-131: one file of the loop
IndexOneFile(db, d, path, stop) ==
  LET fileHash == computeFileHash(d[path])
      existingFile == getFileByPath(db.files, path)
      cks == chunkText(d[path], config.chunkSize, config.chunkOverlap)
  IN  IF existingFile # {}
      THEN LET f == CHOOSE x \in existingFile : TRUE
           IN  IF f.hash = fileHash THEN db
               ELSE WriteChunks(
                      [db EXCEPT !.chunks = deleteChunksByFileId(@, f.id),
                                 !.files = updateFileHash(@, f.id, fileHash)],
                      f.id, cks, 0, stop)
      ELSE LET id == db.seqFiles + 1
           IN  WriteChunks(
                 [db EXCEPT !.seqFiles = id,
                            !.files = insertFile(@, id, path, fileHash)],
                 id, cks, 0, stop)

RECURSIVE IndexEach(_, _, _, _)
IndexEach(db, d, paths, stops) ==
  IF paths = <<>> THEN db
  ELSE IndexEach(IndexOneFile(db, d, Head(paths), stops[Head(paths)]), d,
                 Tail(paths), stops)

\* index.ts lines 28-135: the database a whole run of indexFiles leaves;
\* stops[path] is the number of chunk statements that run for the file
\* before one throws
IndexFilesRun(db, d, stops) ==
  IndexEach(PruneDeleted(db, d, getAllFiles(db.files)), d, findMarkdownFiles(d), stops)

\* no file of the model has more than two chunks: four statements
AllStatements == 4

\* the processing of the file throws: it is on disk, it is new or changed,
\* and fewer statements run than its chunks need
Throws(db, d, path, stop) ==
  /\ d[path] # Absent
  /\ \A f \in getFileByPath(db.files, path) : f.hash # computeFileHash(d[path])
  /\ stop < 2 * Len(chunkText(d[path], config.chunkSize, config.chunkOverlap))

\* the orders a ranking of the rows by a score can take in the model: by
\* identifier, upwards or downwards
RECURSIVE Upwards(_)
Upwards(ids) ==
  IF ids = {} THEN <<>>
  ELSE LET least == CHOOSE x \in ids : \A y \in ids : x <= y
       IN  <<least>> \o Upwards(ids \ {least})

Downwards(ids) ==
  LET up == Upwards(ids) IN [j \in 1..Len(up) |-> up[Len(up) + 1 - j]]

Rankings(ids) == {Upwards(ids), Downwards(ids)}

\* index.ts lines 28-135: one run of indexFiles, with or without failures
StoreIndexFiles ==
  /\ StoreIdle
  /\ runs < MaxStoreRuns
  /\ \E stops \in [PathSet -> 0..AllStatements] :
       /\ failures' = failures
                        + Cardinality({p \in PathSet : Throws(CurrentDatabase, disk, p, stops[p])})
       /\ failures' <= MaxStoreFailures
       /\ WriteDatabase(IndexFilesRun(CurrentDatabase, disk, stops))
  /\ runs' = runs + 1
  /\ UNCHANGED <<disk, config, pc, dbFiles, markdownFiles, cur, stats, snap,
                 unchanged>>
  /\ UNCHANGED <<archive, opencode, uuid, cv_pc, cv_source, cv_stale, cv_items,
                 result, cv_runs, cv_failures, cv_snap, cv_clean>>
  /\ UNCHANGED <<chunkVars, rrfVars, hybridVars, vectorVars, parseVars,
                 convSearchVars, showVars, storeVars>>

\* the first file of the tree is written, created or removed between two
\* calls
StoreTreeChange ==
  /\ st_pc = "idle"
  /\ runs < MaxStoreRuns
  /\ DiskChange
  /\ disk'[Paths[2]] = disk[Paths[2]]

\* reset.ts lines 3-16: every statement runs
ResetDatabase ==
  /\ StoreIdle
  /\ st_resets < MaxResets
  /\ WriteDatabase(resetDatabase(CurrentDatabase, ResetStatements))
  /\ st_resets' = st_resets + 1
  /\ UNCHANGED <<disk, config, pc, dbFiles, markdownFiles, cur, stats, runs,
                 failures, snap, unchanged>>
  /\ UNCHANGED <<archive, opencode, uuid, cv_pc, cv_source, cv_stale, cv_items,
                 result, cv_runs, cv_failures, cv_snap, cv_clean>>
  /\ UNCHANGED <<chunkVars, rrfVars, hybridVars, vectorVars, parseVars,
                 convSearchVars, showVars>>
  /\ UNCHANGED <<st_pc, st_kind, st_query, st_limit, st_results>>

\* reset.ts lines 3-16: a statement throws (the database is locked by
\* another process); the statements before it are committed one by one
ResetFail ==
  /\ StoreIdle
  /\ st_resets < MaxResets
  /\ \E n \in 0..(ResetStatements - 1) :
       WriteDatabase(resetDatabase(CurrentDatabase, n))
  /\ st_resets' = st_resets + 1
  /\ UNCHANGED <<disk, config, pc, dbFiles, markdownFiles, cur, stats, runs,
                 failures, snap, unchanged>>
  /\ UNCHANGED <<archive, opencode, uuid, cv_pc, cv_source, cv_stale, cv_items,
                 result, cv_runs, cv_failures, cv_snap, cv_clean>>
  /\ UNCHANGED <<chunkVars, rrfVars, hybridVars, vectorVars, parseVars,
                 convSearchVars, showVars>>
  /\ UNCHANGED <<st_pc, st_kind, st_query, st_limit, st_results>>

\* bm25.ts lines 9-23: one call of bm25Search
StoreBm25 ==
  /\ StoreIdle
  /\ \E query \in StoreQueries, limit \in 1..MaxStoreLimit :
       \E ranking \in Rankings(MatchingRowids(chunks_fts, query)) :
         /\ st_query' = query
         /\ st_limit' = limit
         /\ st_results' = Bm25Rows(chunks, ranking, limit)
  /\ st_kind' = "bm25"
  /\ st_pc' = "returned"
  /\ UNCHANGED <<notesVars, chunkVars, convVars, rrfVars, hybridVars, vectorVars,
                 parseVars, convSearchVars, showVars, st_resets>>

\* vector.ts lines 23-51: one call of vectorSearch
StoreVector ==
  /\ StoreIdle
  /\ \E limit \in 1..MaxStoreLimit :
       \E ranking \in Rankings(ChunkIdsOf(chunks)) :
         /\ st_limit' = limit
         /\ st_results' = VectorRows(chunks, ranking, limit)
  /\ st_query' = <<>>
  /\ st_kind' = "vector"
  /\ st_pc' = "returned"
  /\ UNCHANGED <<notesVars, chunkVars, convVars, rrfVars, hybridVars, vectorVars,
                 parseVars, convSearchVars, showVars, st_resets>>

\* hybrid.ts lines 7-75: one call of hybridSearch
StoreHybrid ==
  /\ StoreIdle
  /\ \E query \in StoreQueries, limit \in 1..MaxStoreLimit :
       \E bm25Ranking \in Rankings(MatchingRowids(chunks_fts, query)),
          vectorRanking \in Rankings(ChunkIdsOf(chunks)) :
         /\ st_query' = query
         /\ st_limit' = limit
         /\ st_results' = HybridRows(files, chunks, bm25Ranking, vectorRanking, limit)
  /\ st_kind' = "hybrid"
  /\ st_pc' = "returned"
  /\ UNCHANGED <<notesVars, chunkVars, convVars, rrfVars, hybridVars, vectorVars,
                 parseVars, convSearchVars, showVars, st_resets>>

\* the caller has the results; the next call on the store may start
StoreNextCall ==
  /\ st_pc = "returned"
  /\ st_pc' = "idle"
  /\ st_kind' = ""
  /\ st_query' = <<>>
  /\ st_limit' = 0
  /\ st_results' = <<>>
  /\ UNCHANGED <<notesVars, chunkVars, convVars, rrfVars, hybridVars, vectorVars,
                 parseVars, convSearchVars, showVars, st_resets>>

NextStore ==
  \/ StoreIndexFiles
  \/ StoreTreeChange
  \/ ResetDatabase
  \/ ResetFail
  \/ StoreBm25
  \/ StoreVector
  \/ StoreHybrid
  \/ StoreNextCall

SpecStore == InitStore /\ [][NextStore]_vars

\* C32: after resetDatabase every content table is empty: files, chunks,
\* chunks_fts, conversations and exchanges
C32_ResetEmptiesEveryTable ==
  [][ResetDatabase =>
       /\ files' = {}
       /\ chunks' = {}
       /\ chunks_fts' = {}
       /\ conversations' = {}
       /\ exchanges' = {}]_vars


StoreReturned == st_pc = "returned"

\* the chunks row is the one indexFiles wrote for this place of the file its
\* file_id names: its text is the chunk at chunk_index of the content the
\* File row fingerprints
IndexedFrom(c, f) ==
  /\ c.file_id = f.id
  /\ LET cks == chunkText(f.hash[2], config.chunkSize, config.chunkOverlap)
     IN  /\ c.chunk_index < Len(cks)
         /\ cks[c.chunk_index + 1] = c.content

\* C37: in any sequence of indexFiles runs, resets and searches, every
\* result of bm25Search, vectorSearch and hybridSearch carries the text of a
\* Fragment that is in the chunks table, under the identifier, the place
\* and the File it was indexed from; a bm25 result is a Fragment whose own
\* text matches the query, never a later Fragment under the rowid of a
\* shadow row that matched
C37_ResultsAreCurrentFragments ==
  StoreReturned =>
    \A j \in 1..Len(st_results) :
      LET r == st_results[j]
      IN  IF st_kind = "hybrid"
          THEN \E c \in chunks, f \in files :
                 /\ IndexedFrom(c, f)
                 /\ r.content = c.content
                 /\ r.chunk_index = c.chunk_index
                 /\ r.source_path = f.path
          ELSE \E c \in chunks, f \in files :
                 /\ IndexedFrom(c, f)
                 /\ r.chunk_id = c.id
                 /\ r.content = c.content
                 /\ st_kind = "bm25" => Match(c.content, st_query)

\* a search returned Fragments after a reset, while the shadow table held a
\* row that matches the query and whose Fragment is gone
C37_Witness ==
  /\ StoreReturned
  /\ st_kind = "bm25"
  /\ st_resets > 0
  /\ st_results # <<>>
  /\ \E r \in chunks_fts :
       /\ Match(r.content, st_query)
       /\ r.rowid \notin ChunkIdsOf(chunks)

(***************************************************************************)
(* indexFiles: what a run without errors leaves, and what its summary      *)
(* counts                                                                  *)
(***************************************************************************)

\* indexFiles has returned and the tree was not touched since
JustReturned == AtRest /\ unchanged

\* C33: whenever a run returns with an empty error list, every Markdown
\* file on disk has a File row with the hash of its content and Fragments
\* that are the chunking of that content, also when an earlier run failed
\* on that file
C33_ErrorFreeRunLeavesEveryFileFresh ==
  (JustReturned /\ stats.errors = <<>>) =>
    \A p \in currentFilePaths(disk) :
      ViewOf(files, chunks, p) = FreshView(disk[p])


\* C39: in the summary indexFiles returns every Markdown file found is
\* counted once: filesProcessed = filesAdded + filesUpdated + filesSkipped
\* + the number of per-file processing errors
C39_EveryFileCountedOnce ==
  AtRest =>
    stats.filesProcessed =
      stats.filesAdded + stats.filesUpdated + stats.filesSkipped + Len(stats.errors)


(***************************************************************************)
(* indexConversationFiles over archive files whose session identifier is   *)
(* part of their content: a file can be rewritten with another session.    *)
(***************************************************************************)

MaxRewriteRuns == 2

\* the contents of an archive file: the session.start record names the
\* session
SessionLogs ==
  { [kind |-> "log", session |-> "s1", exchanges |-> OneExchange],
    [kind |-> "log", session |-> "s2", exchanges |-> OneExchange],
    [kind |-> "log", session |-> "s1", exchanges |-> ThreeExchanges],
    [kind |-> "invalid", session |-> "", exchanges |-> <<>>] }

\* parseCopilotConversation: the Conversation of the file at the path
ParsedLog(path, log) ==
  [id |-> log.session, source |-> "copilot", archivePath |-> path,
   exchangeCount |-> Len(log.exchanges)]

NextRowid(cs) ==
  IF cs = {} THEN 1
  ELSE 1 + (CHOOSE n \in {c.rowid : c \in cs} : \A c \in cs : c.rowid <= n)

\* indexer.ts lines 94-108: the copilot conversations whose archive path is
\* not among the file paths are deleted, with their exchanges
RECURSIVE PruneMissing(_, _, _)
PruneMissing(st, filePathSet, rows) ==
  IF rows = <<>> THEN st
  ELSE LET conv == Head(rows)
       IN  IF conv.archive_path \notin filePathSet
           THEN PruneMissing(
                  [st EXCEPT !.conversations = deleteConversation(@, conv.id),
                             !.exchanges = cascadeConversationDelete(@, conv.id),
                             !.result.conversationsDeleted = @ + 1],
                  filePathSet, Tail(rows))
           ELSE PruneMissing(st, filePathSet, Tail(rows))

\* indexer.ts lines 26-83 and 110-124: indexConversationFile on one file,
\* and what indexConversationFiles counts for it
IngestFile(st, logs, path) ==
  LET log == logs[path]
  IN  IF log.kind = "invalid"
      THEN [st EXCEPT !.result.errors = Append(@, path)]
      ELSE LET parsed == ParsedLog(path, log)
               fileHash == <<"sha256", log>>
               existing == getConversation(st.conversations, parsed.id)
           IN  IF \E e \in existing : e.hash = fileHash
               THEN [st EXCEPT !.result.conversationsSkipped = @ + 1]
               ELSE [st EXCEPT
                       !.exchanges =
                          insertExchanges(deleteExchangesForConversation(@, parsed.id),
                                          parsed.id, log.exchanges, st.uuid),
                       !.conversations =
                          insertConversation(@, parsed, fileHash, NextRowid(@)),
                       !.uuid = @ + Len(log.exchanges),
                       !.result.conversationsIndexed = @ + 1,
                       !.result.exchangesIndexed = @ + Len(log.exchanges)]

RECURSIVE IngestEach(_, _, _)
IngestEach(st, logs, paths) ==
  IF paths = <<>> THEN st
  ELSE IngestEach(IngestFile(st, logs, Head(paths)), logs, Tail(paths))

\* indexer.ts lines 85-127: one run of indexConversationFiles over the
\* archive files that exist
IngestFilesRun(convs, exs, nextId, logs) ==
  LET filePaths == SelectSeq(ArchivePaths, LAMBDA p : logs[p] # NoArtifact)
      start == [conversations |-> convs, exchanges |-> exs, uuid |-> nextId,
                result |-> ZeroResult]
      pruned == PruneMissing(start, {filePaths[k] : k \in 1..Len(filePaths)},
                             getAllConversationsBySource(convs, "copilot"))
  IN  IngestEach(pruned, logs, filePaths)

InitRewrite ==
  /\ NotesOff
  /\ ChunkOff
  /\ SearchOff
  /\ archive \in [ArchivePathSet -> SessionLogs \cup {NoArtifact}]
  /\ opencode = <<>>
  /\ conversations = {}
  /\ exchanges = {}
  /\ uuid = 0
  /\ cv_pc = "idle"
  /\ cv_source = "copilot"
  /\ cv_stale = <<>>
  /\ cv_items = <<>>
  /\ result = ZeroResult
  /\ cv_runs = 0
  /\ cv_failures = 0
  /\ cv_snap = <<>>
  /\ cv_clean = <<>>

\* an archive file is written, created or removed between two runs
RewriteArchive ==
  /\ cv_runs > 0
  /\ cv_runs < MaxRewriteRuns
  /\ \E p \in ArchivePathSet, log \in SessionLogs \cup {NoArtifact} :
       /\ log # archive[p]
       /\ archive' = [archive EXCEPT ![p] = log]
  /\ cv_clean' = <<>>
  /\ UNCHANGED <<opencode, conversations, exchanges, uuid, cv_pc, cv_source,
                 cv_stale, cv_items, result, cv_runs, cv_failures, cv_snap>>
  /\ UNCHANGED <<notesVars, chunkVars, searchVars>>

\* indexer.ts lines 85-127: one run of indexConversationFiles
IngestRun ==
  /\ cv_runs < MaxRewriteRuns
  /\ LET after == IngestFilesRun(conversations, exchanges, uuid, archive)
     IN  /\ conversations' = after.conversations
         /\ exchanges' = after.exchanges
         /\ uuid' = after.uuid
         /\ result' = after.result
  /\ cv_runs' = cv_runs + 1
  /\ cv_clean' = <<"returned">>
  /\ UNCHANGED <<archive, opencode, cv_pc, cv_source, cv_stale, cv_items,
                 cv_failures, cv_snap>>
  /\ UNCHANGED <<notesVars, chunkVars, searchVars>>

NextRewrite == RewriteArchive \/ IngestRun

SpecRewrite == InitRewrite /\ [][NextRewrite]_vars

ParsedExchangeSet(log) ==
  {<<k - 1, log.exchanges[k][1], log.exchanges[k][2]>> : k \in 1..Len(log.exchanges)}

\* C34: after a run of indexConversationFiles that reports no errors, every
\* stored copilot Conversation is the parse of the current content of the
\* file at its archive_path; nothing ingested from a previous content with
\* another session identifier is left
C34_StoredIsParseOfCurrentFile ==
  (cv_clean = <<"returned">> /\ result.errors = <<>>) =>
    \A c \in conversations :
      c.source = "copilot" =>
        /\ archive[c.archive_path] # NoArtifact
        /\ c.id = archive[c.archive_path].session
        /\ StoredExchanges(exchanges, c.id) = ParsedExchangeSet(archive[c.archive_path])


(***************************************************************************)
(* indexOpencodeDatabase after a change of one session                     *)
(***************************************************************************)

\* the sessions whose content differs between two states of the foreign
\* database
ChangedSessions(before, after) == {sid \in OpencodeSessionSet : before[sid] # after[sid]}

\* the foreign database as it was when the Conversation was ingested: the
\* stored fingerprint is the hash of the whole database file
IngestedFrom(c) == c.hash[2]

\* C35: when exactly one session of the foreign database changed since a
\* Conversation was ingested, and it is not the session of that
\* Conversation, a run of indexOpencodeDatabase skips the Conversation: it
\* writes none of its rows
C35_OnlyChangedSessionIsReindexed ==
  (cv_pc # "off" /\ cv_source = "opencode") =>
    \A c \in cv_snap.conversations :
      ( /\ c.source = "opencode"
        /\ Cardinality(ChangedSessions(IngestedFrom(c), cv_snap.opencode)) = 1
        /\ c.id \notin ChangedSessions(IngestedFrom(c), cv_snap.opencode) ) =>
        RowsOf(conversations, exchanges, c.id) =
          RowsOf(cv_snap.conversations, cv_snap.exchanges, c.id)


(***************************************************************************)
(* The assistant text of an Exchange of the foreign-database parser        *)
(***************************************************************************)

\* the texts of the assistant messages at the places from..to, one after
\* the other
RECURSIVE AssistantTexts(_, _)
AssistantTexts(from, to) ==
  IF from > to THEN <<>>
  ELSE (IF ps_input[from].type = "assistant" THEN ps_input[from].content ELSE <<>>)
         \o AssistantTexts(from + 1, to)

\* the texts of all assistant messages of the turn of the user message at
\* place i
TurnText(i) ==
  IF SegmentOf(i) = {} THEN <<>>
  ELSE AssistantTexts(i + 1, CHOOSE j \in SegmentOf(i) : \A k \in SegmentOf(i) : k <= j)

\* C36: in the foreign-database parser the assistant text of an Exchange
\* is the concatenation, in creation order, of the texts of all assistant
\* messages between its user message and the next user message
C36_AssistantTextIsWholeTurn ==
  (Parsed /\ ps_source = "opencode") =>
    \A j \in 1..Len(ps_exchanges) :
      ps_exchanges[j].assistantMessage = TurnText(ps_exchanges[j].timestamp)


(***************************************************************************)
(* One store fed by both sources.  The identifier of a Conversation is the *)
(* session identifier its source carries: the sessionId of the             *)
(* session.start record of an archive file, the id column of a session of  *)
(* the foreign database.  Neither is drawn by the store, so the two        *)
(* sources can carry the same one.                                         *)
(***************************************************************************)

\* the sessions the foreign database can hold, in the order of its listing
ForeignSessions == <<"s1", "o1">>
ForeignSessionSet == {ForeignSessions[i] : i \in 1..Len(ForeignSessions)}

\* part_017 lines 40-53: the opencode conversations whose id is not a
\* session of the foreign database are deleted, with their exchanges
RECURSIVE PruneSessions(_, _, _)
PruneSessions(st, currentSessionIds, rows) ==
  IF rows = <<>> THEN st
  ELSE LET conv == Head(rows)
       IN  IF conv.id \notin currentSessionIds
           THEN PruneSessions(
                  [st EXCEPT !.conversations = deleteConversation(@, conv.id),
                             !.exchanges = cascadeConversationDelete(@, conv.id),
                             !.result.conversationsDeleted = @ + 1],
                  currentSessionIds, Tail(rows))
           ELSE PruneSessions(st, currentSessionIds, Tail(rows))

\* indexer.ts lines 26-83 with a sessionId, and what indexOpencodeDatabase
\* counts for it (part_017 lines 55-77)
IngestSession(st, sessions, sid) ==
  LET parsed == [id |-> sid, source |-> "opencode", archivePath |-> OpencodeDbPath,
                 exchangeCount |-> Len(sessions[sid].exchanges)]
      fileHash == <<"sha256", sessions>>
      existing == getConversation(st.conversations, parsed.id)
  IN  IF \E e \in existing : e.hash = fileHash
      THEN [st EXCEPT !.result.conversationsSkipped = @ + 1]
      ELSE [st EXCEPT
              !.exchanges =
                 insertExchanges(deleteExchangesForConversation(@, parsed.id),
                                 parsed.id, sessions[sid].exchanges, st.uuid),
              !.conversations =
                 insertConversation(@, parsed, fileHash, NextRowid(@)),
              !.uuid = @ + Len(sessions[sid].exchanges),
              !.result.conversationsIndexed = @ + 1,
              !.result.exchangesIndexed = @ + Len(sessions[sid].exchanges)]

RECURSIVE IngestSessions(_, _, _)
IngestSessions(st, sessions, sids) ==
  IF sids = <<>> THEN st
  ELSE IngestSessions(IngestSession(st, sessions, Head(sids)), sessions, Tail(sids))

\* part_017 lines 16-80: one run of indexOpencodeDatabase
IngestSessionsRun(convs, exs, nextId, sessions) ==
  LET sids == SelectSeq(ForeignSessions, LAMBDA sid : sessions[sid] # NoArtifact)
      start == [conversations |-> convs, exchanges |-> exs, uuid |-> nextId,
                result |-> ZeroResult]
      pruned == PruneSessions(start, {sids[k] : k \in 1..Len(sids)},
                              getAllConversationsBySource(convs, "opencode"))
  IN  IngestSessions(pruned, sessions, sids)

InitSources ==
  /\ NotesOff
  /\ ChunkOff
  /\ SearchOff
  /\ archive \in [ArchivePathSet -> SessionLogs \cup {NoArtifact}]
  /\ opencode \in [ForeignSessionSet -> SessionContents \cup {NoArtifact}]
  /\ conversations = {}
  /\ exchanges = {}
  /\ uuid = 0
  /\ cv_pc = "idle"
  /\ cv_source = "copilot"
  /\ cv_stale = <<>>
  /\ cv_items = <<>>
  /\ result = ZeroResult
  /\ cv_runs = 0
  /\ cv_failures = 0
  /\ cv_snap = <<>>
  /\ cv_clean = <<>>

\* part_017 lines 16-80: one run of indexOpencodeDatabase
OpencodeRun ==
  /\ cv_runs < MaxRewriteRuns
  /\ LET after == IngestSessionsRun(conversations, exchanges, uuid, opencode)
     IN  /\ conversations' = after.conversations
         /\ exchanges' = after.exchanges
         /\ uuid' = after.uuid
         /\ result' = after.result
  /\ cv_runs' = cv_runs + 1
  /\ cv_clean' = <<"returned">>
  /\ UNCHANGED <<archive, opencode, cv_pc, cv_source, cv_stale, cv_items,
                 cv_failures, cv_snap>>
  /\ UNCHANGED <<notesVars, chunkVars, searchVars>>

NextSources == RewriteArchive \/ IngestRun \/ OpencodeRun

SpecSources == InitSources /\ [][NextSources]_vars

\* the Conversations of a source, with their Exchanges
RowsOfSource(cs, es, source) ==
  [conversations |-> {c \in cs : c.source = source},
   exchanges |-> {e \in es : \E c \in cs : c.source = source /\ c.id = e.conversation_id}]

\* C38: a run of indexConversationFiles leaves every opencode Conversation
\* and its Exchanges unchanged, a run of indexOpencodeDatabase leaves every
\* copilot Conversation and its Exchanges unchanged, and neither writes to
\* files, chunks or chunks_fts
C38_OtherSourceIsUntouched ==
  [][ /\ IngestRun =>
           RowsOfSource(conversations', exchanges', "opencode") =
             RowsOfSource(conversations, exchanges, "opencode")
      /\ OpencodeRun =>
           RowsOfSource(conversations', exchanges', "copilot") =
             RowsOfSource(conversations, exchanges, "copilot")
      /\ (IngestRun \/ OpencodeRun) => UNCHANGED <<files, chunks, chunks_fts>> ]_vars

====
